---- MODULE Spec2Model ----
(***************************************************************************)
(* The Auth Health Engine of src/src/lib/authFixes.ts: the registry of     *)
(* five problem definitions (check + fix), diagnoseAuthProblems and        *)
(* applyAuthFixes, run against an identity provider and a profile store    *)
(* that may answer with a value, with an error result, or by throwing.     *)
(*                                                                         *)
(* An optional JavaScript value (null / undefined or a value) is a         *)
(* sequence of length 0 or 1: None is <<>>, Some(v) is <<v>>.              *)
(***************************************************************************)
EXTENDS Naturals, Integers, Sequences, FiniteSets, TLC

VARIABLES
    origin,        \* window.location.origin
    session,       \* the provider's current session (optional)
    user_profiles, \* the rows of the user_profiles table
    latency,       \* round-trip time of a session fetch, in ms
    sessMode,      \* how getSession answers
    userMode,      \* how getUser answers
    refreshMode,   \* how refreshSession answers
    signOutMode,   \* how signOut answers
    dbMode,        \* how the profile store answers
    authProblems,  \* the registry (exported array)
    op,            \* the engine operation in progress or last resolved
    phase,         \* "idle", "checking", "fixing", "resolved"
    checkPc,       \* per problem: the provider call its check awaits, or "done"
    checkResp,     \* per problem: the provider responses its check received
    checkRes,      \* per problem: what its check() promise settled to
    checkCalls,    \* per problem: provider calls its check issued in this pass
    outOfOrder,    \* some check completed before an earlier registry entry's
    problemsToFix, \* applyAuthFixes: the diagnostic entries selected for fixing
    fixPc,         \* per selected entry: the call its fix awaits, or "done"
    fixResp,       \* per selected entry: the provider responses its fix received
    fixRes,        \* per selected entry: what its fix() promise settled to
    fixInvoked,    \* per problem id: fix() invocations in this pass
    ret,           \* what the engine operation's promise settled to
    diagnostics,   \* AuthFixer state: result of the last diagnoseAuthProblems
    fixResults,    \* AuthFixer state: result of the last applyAuthFixes
    clock,         \* Date.now(), in ms
    localStorage,  \* window.localStorage: the entries, in key(i) order
    sessionStorage, \* window.sessionStorage: the entries, in key(i) order
    storageMode,   \* how the browser storage answers
    calls,         \* per provider operation: calls issued by the current operation
    storageTouched, \* the current operation has read or written browser storage
    before,        \* session, profiles and storage when the current operation began
    completion,    \* the order the checks settled in (kept by SpecOrder only)
    other,         \* a second invocation running beside the first (SpecOverlap only)
    hung,          \* the provider operations that never answer (SpecLive only)
    bucket,        \* the names of the objects in the video bucket
    gcsMode,       \* how the object storage answers
    video          \* the last call of the video upload service

provider == <<origin, session, user_profiles, latency,
              sessMode, userMode, refreshMode, signOutMode, dbMode>>
engine == <<op, phase, checkPc, checkResp, checkRes, checkCalls, outOfOrder,
            problemsToFix, fixPc, fixResp, fixRes, fixInvoked, ret>>
caller == <<diagnostics, fixResults>>
browser == <<clock, localStorage, sessionStorage, storageMode>>
history == <<calls, storageTouched, before>>
videos == <<bucket, gcsMode, video>>
vars == <<provider, authProblems, engine, caller, browser, history, completion,
          other, hung, videos>>

None == <<>>
Some(v) == <<v>>

\* String.prototype.includes
includes(s, sub) ==
    \E i \in 1..(Len(s) + 1 - Len(sub)) : SubSeq(s, i, i + Len(sub) - 1) = sub

-----------------------------------------------------------------------------
(* The registry                                                            *)

sessionExpiredProblem == [id |-> "session_expired", name |-> "Sessão Expirada", severity |-> "medium"]
invalidTokenProblem == [id |-> "invalid_token", name |-> "Token de Acesso Inválido", severity |-> "high"]
connectivityProblem == [id |-> "connectivity", name |-> "Problemas de Conectividade", severity |-> "high"]
missingProfileProblem == [id |-> "missing_profile", name |-> "Perfil de Usuário Não Encontrado", severity |-> "medium"]
corsProblem == [id |-> "cors", name |-> "Problema de CORS", severity |-> "medium"]

Registry ==
    << sessionExpiredProblem, invalidTokenProblem, connectivityProblem,
       missingProfileProblem, corsProblem >>

-----------------------------------------------------------------------------
(* The identity provider and the profile store                             *)

\* The authenticated user: email and user_metadata.name may be absent
TheUser == [id |-> "user-1", email |-> Some("ana@example.com"), name |-> None]

\* Date.now() is in ms, expires_at in whole seconds
NowSec == 1000 * 1000
ClockValues == {NowSec * 1000, NowSec * 1000 + 999}

\* A session with the given expires_at (absent, or a number of seconds)
SessionExpiring(e) == [user |-> TheUser, expires_at |-> e]
\* The session a sign-in or a refresh yields: valid for an hour
ActiveSession == SessionExpiring(Some(NowSec + 3600))

Value(data, error) == [kind |-> "value", data |-> data, error |-> error]
Throws == [kind |-> "throw", data |-> None, error |-> None]
Err(m) == Some([message |-> m])

SessModes == {"ok", "errCORS", "errNet", "throw"}
UserModes == {"ok", "errJWT", "errOther", "throw"}
RefreshModes == {"session", "nosession", "error", "throw"}
SignOutModes == {"ok", "error", "throw"}
DbModes == {"ok", "error", "throw"}

getSessionOf(s) ==
    CASE sessMode = "ok" -> Value(Some([session |-> s]), None)
      [] sessMode = "errCORS" ->
            Value(Some([session |-> None]), Err("CORS request did not succeed"))
      [] sessMode = "errNet" ->
            Value(Some([session |-> None]), Err("Failed to fetch"))
      [] OTHER -> Throws

getSession == getSessionOf(session)

getUserOf(s) ==
    CASE userMode = "ok" ->
            Value(Some([user |-> IF s = None THEN None ELSE Some(s[1].user)]), None)
      [] userMode = "errJWT" ->
            Value(Some([user |-> None]), Err("invalid JWT: token is expired"))
      [] userMode = "errOther" ->
            Value(Some([user |-> None]), Err("Auth session missing!"))
      [] OTHER -> Throws

getUser == getUserOf(session)

refreshSession ==
    CASE refreshMode = "session" -> Value(Some([session |-> Some(ActiveSession)]), None)
      [] refreshMode = "nosession" -> Value(Some([session |-> None]), None)
      [] refreshMode = "error" ->
            Value(Some([session |-> None]), Err("Invalid Refresh Token"))
      [] OTHER -> Throws

signOut ==
    CASE signOutMode = "ok" -> Value(None, None)
      [] signOutMode = "error" -> Value(None, Err("Failed to fetch"))
      [] OTHER -> Throws

\* from('user_profiles').select('id').eq('id', id).single()
selectProfileIn(rows, id) ==
    CASE dbMode = "ok" ->
            IF \E p \in rows : p.id = id
            THEN Value(Some([id |-> id]), None)
            ELSE Value(None, Err("JSON object requested, multiple (or no) rows returned"))
      [] dbMode = "error" -> Value(None, Err("permission denied for table user_profiles"))
      [] OTHER -> Throws

selectProfile(id) == selectProfileIn(user_profiles, id)

\* from('user_profiles').insert(row)
insertProfileIn(rows, row) ==
    CASE dbMode = "ok" ->
            IF \E p \in rows : p.id = row.id
            THEN Value(None, Err("duplicate key value violates unique constraint"))
            ELSE Value(None, None)
      [] dbMode = "error" -> Value(None, Err("permission denied for table user_profiles"))
      [] OTHER -> Throws

insertProfile(row) == insertProfileIn(user_profiles, row)

ProviderCalls == {"getSession", "getUser", "refreshSession", "signOut", "select", "insert"}
NoCalls == [c \in ProviderCalls |-> 0]

\* The response to a call, by the name the engine awaits it under, from a
\* provider whose session is s and whose profile table holds rows
RespondIn(s, rows, call, arg) ==
    CASE call = "getSession" -> getSessionOf(s)
      [] call = "getUser" -> getUserOf(s)
      [] call = "refreshSession" -> refreshSession
      [] call = "signOut" -> signOut
      [] call = "select" -> selectProfileIn(rows, arg)
      [] OTHER -> insertProfileIn(rows, arg)

Respond(call, arg) == RespondIn(session, user_profiles, call, arg)

\* The provider state after a call has been served
SessionAfterIn(s, call) ==
    CASE call = "refreshSession" /\ refreshMode = "session" -> Some(ActiveSession)
      [] call = "signOut" /\ signOutMode = "ok" -> None
      [] OTHER -> s

SessionAfter(call) == SessionAfterIn(session, call)

ProfilesAfterIn(rows, call, arg) ==
    IF call = "insert" /\ dbMode = "ok" /\ ~(\E p \in rows : p.id = arg.id)
    THEN rows \cup {arg}
    ELSE rows

ProfilesAfter(call, arg) == ProfilesAfterIn(user_profiles, call, arg)

-----------------------------------------------------------------------------
(* check(): each operator is the body of one check, as a function of the   *)
(* provider response it awaited. A check() promise settles to a record:    *)
(* fulfilled with {hasProblem, details?}, or rejected.                     *)

HasProblem(d) == [settled |-> "fulfilled", hasProblem |-> TRUE, details |-> Some(d)]
NoProblem == [settled |-> "fulfilled", hasProblem |-> FALSE, details |-> None]
Rejected == [settled |-> "rejected"]
Pending == [settled |-> "pending"]

SlowResponseMs == 5000

\* sessionExpiredCheck without the test for a missing session
sessionExpiredCheckErrorOnly(r) ==
    IF r.kind = "throw" THEN HasProblem("Erro ao verificar sessão")
    ELSE IF r.error # None THEN HasProblem(r.error[1].message)
    ELSE NoProblem

sessionExpiredCheck(r) ==
    IF r.kind = "throw" THEN HasProblem("Erro ao verificar sessão")
    ELSE IF r.error # None THEN HasProblem(r.error[1].message)
    ELSE IF r.data = None THEN HasProblem("Erro ao verificar sessão")
    ELSE IF r.data[1].session = None THEN HasProblem("Nenhuma sessão ativa encontrada")
    ELSE NoProblem

\* invalidTokenCheck flagging every error result, whatever its message
invalidTokenCheckAnyError(r) ==
    IF r.kind = "throw" THEN HasProblem("Erro ao verificar token")
    ELSE IF r.error # None THEN HasProblem("Token JWT inválido")
    ELSE NoProblem

invalidTokenCheck(r) ==
    IF r.kind = "throw" THEN HasProblem("Erro ao verificar token")
    ELSE IF r.error # None /\ includes(r.error[1].message, "JWT")
         THEN HasProblem("Token JWT inválido")
    ELSE NoProblem

\* connectivityCheck calling a response slow from the threshold on
connectivityCheckFromThreshold(r, responseTime) ==
    IF r.kind = "throw" THEN HasProblem("Falha na conexão com Supabase")
    ELSE IF r.error # None THEN HasProblem("Erro de conexão: " \o r.error[1].message)
    ELSE IF responseTime >= SlowResponseMs
    THEN HasProblem("Resposta lenta: " \o ToString(responseTime) \o "ms")
    ELSE NoProblem

connectivityCheck(r, responseTime) ==
    IF r.kind = "throw" THEN HasProblem("Falha na conexão com Supabase")
    ELSE IF r.error # None THEN HasProblem("Erro de conexão: " \o r.error[1].message)
    ELSE IF responseTime > SlowResponseMs THEN HasProblem("Resposta lenta: " \o ToString(responseTime) \o "ms")
    ELSE NoProblem

\* missing_profile, up to its second await: either the check's result, or the
\* user whose profile it goes on to look up
missingProfileCheckUser(r) ==
    IF r.kind = "throw" \/ r.data = None
    THEN [done |-> TRUE, result |-> HasProblem("Erro ao verificar perfil")]
    ELSE IF r.data[1].user = None
    THEN [done |-> TRUE, result |-> HasProblem("Usuário não autenticado")]
    ELSE [done |-> FALSE, call |-> "select", arg |-> r.data[1].user[1].id]

missingProfileCheckProfile(r) ==
    IF r.kind = "throw" THEN HasProblem("Erro ao verificar perfil")
    ELSE IF r.error # None \/ r.data = None THEN HasProblem("Perfil não encontrado no banco")
    ELSE NoProblem

\* isLocalhost testing the host name only
isLocalhostNameOnly(currentOrigin) == includes(currentOrigin, "localhost")

isLocalhost(currentOrigin) ==
    includes(currentOrigin, "localhost") \/ includes(currentOrigin, "127.0.0.1")

\* corsCheck without its try/catch: a throwing session fetch rejects the check
corsCheckNoCatch(r) ==
    IF r.kind = "throw" THEN Rejected
    ELSE IF r.error # None /\ includes(r.error[1].message, "CORS")
         THEN HasProblem("Erro de CORS detectado")
    ELSE NoProblem

corsCheck(r) ==
    IF r.kind = "throw" THEN HasProblem("Erro ao verificar CORS")
    ELSE IF r.error # None /\ includes(r.error[1].message, "CORS")
         THEN HasProblem("Erro de CORS detectado")
    ELSE NoProblem

\* The synchronous head of check(): the provider call it issues and awaits,
\* or its result when it awaits none
\* CheckBegin with a session_expired check that renews the session to see
\* whether there is one
CheckBeginRenewing(id) ==
    CASE id = "session_expired" -> [done |-> FALSE, call |-> "refreshSession", arg |-> None]
      [] id = "invalid_token" -> [done |-> FALSE, call |-> "getUser", arg |-> None]
      [] id = "connectivity" -> [done |-> FALSE, call |-> "getSession", arg |-> None]
      [] id = "missing_profile" -> [done |-> FALSE, call |-> "getUser", arg |-> None]
      [] OTHER ->
            IF ~isLocalhost(origin)
            THEN [done |-> FALSE, call |-> "getSession", arg |-> None]
            ELSE [done |-> TRUE, result |-> NoProblem]

\* check() up to its first await
CheckBegin(id) ==
    CASE id = "session_expired" -> [done |-> FALSE, call |-> "getSession", arg |-> None]
      [] id = "invalid_token" -> [done |-> FALSE, call |-> "getUser", arg |-> None]
      [] id = "connectivity" -> [done |-> FALSE, call |-> "getSession", arg |-> None]
      [] id = "missing_profile" -> [done |-> FALSE, call |-> "getUser", arg |-> None]
      [] OTHER ->
            IF ~isLocalhost(origin)
            THEN [done |-> FALSE, call |-> "getSession", arg |-> None]
            ELSE [done |-> TRUE, result |-> NoProblem]

\* check() resumed with the response r to the call it awaited
CheckResume(id, call, r) ==
    CASE id = "session_expired" -> [done |-> TRUE, result |-> sessionExpiredCheck(r)]
      [] id = "invalid_token" -> [done |-> TRUE, result |-> invalidTokenCheck(r)]
      [] id = "connectivity" -> [done |-> TRUE, result |-> connectivityCheck(r, latency)]
      [] id = "missing_profile" ->
            IF call = "getUser" THEN missingProfileCheckUser(r)
            ELSE [done |-> TRUE, result |-> missingProfileCheckProfile(r)]
      [] OTHER -> [done |-> TRUE, result |-> corsCheck(r)]

-----------------------------------------------------------------------------
(* fix(): each operator is the body of one fix, as a function of the       *)
(* provider response it awaited. A fix() promise settles to a record:      *)
(* fulfilled with {success, message, details?}, or rejected.               *)

Fixed(m) == [settled |-> "fulfilled", success |-> TRUE, message |-> m, details |-> None]
NotFixed(m, d) == [settled |-> "fulfilled", success |-> FALSE, message |-> m, details |-> d]

\* sessionExpiredFix taking the absence of an error for a renewed session
sessionExpiredFixNoSessionTest(r) ==
    IF r.kind = "throw" \/ (r.error = None /\ r.data = None)
    THEN NotFixed("Erro ao renovar sessão", Some("Erro desconhecido"))
    ELSE IF r.error # None
    THEN NotFixed("Falha ao renovar sessão", Some(r.error[1].message))
    ELSE Fixed("Sessão renovada com sucesso")

sessionExpiredFix(r) ==
    IF r.kind = "throw" \/ (r.error = None /\ r.data = None)
    THEN NotFixed("Erro ao renovar sessão", Some("Erro desconhecido"))
    ELSE IF r.error # None
    THEN NotFixed("Falha ao renovar sessão", Some(r.error[1].message))
    ELSE IF r.data[1].session # None THEN Fixed("Sessão renovada com sucesso")
    ELSE NotFixed("Sessão não pôde ser renovada - faça login novamente", None)

\* invalidTokenFix without its try/catch: a throwing sign-out rejects the fix
invalidTokenFixNoCatch(r) ==
    IF r.kind = "throw" THEN Rejected
    ELSE Fixed("Tokens limpos - faça login novamente")

\* invalidTokenFix reporting a failure when the sign-out answers with an error
invalidTokenFixErrorFails(r) ==
    IF r.kind = "throw" \/ r.error # None
    THEN NotFixed("Erro ao limpar tokens", Some("Erro desconhecido"))
    ELSE Fixed("Tokens limpos - faça login novamente")

invalidTokenFix(r) ==
    IF r.kind = "throw"
    THEN NotFixed("Erro ao limpar tokens", Some("Erro desconhecido"))
    ELSE Fixed("Tokens limpos - faça login novamente")

connectivityFix(r) ==
    IF r.kind = "throw"
    THEN NotFixed("Erro na reconexão", Some("Verifique sua internet"))
    ELSE IF r.error # None THEN NotFixed("Falha na reconexão", Some(r.error[1].message))
    ELSE Fixed("Conexão restaurada")

\* NewProfile giving every profile the default display name
NewProfileDefaultName(user) ==
    [id |-> user.id,
     email |-> IF user.email = None THEN "" ELSE user.email[1],
     name |-> "Usuário",
     role |-> "user"]

\* The row missing_profile inserts for a user
NewProfile(user) ==
    [id |-> user.id,
     email |-> IF user.email = None THEN "" ELSE user.email[1],
     name |-> IF user.name = None THEN "Usuário" ELSE user.name[1],
     role |-> "user"]

\* missing_profile's fix, up to its second await
missingProfileFixUser(r) ==
    IF r.kind = "throw" \/ r.data = None
    THEN [done |-> TRUE, result |-> NotFixed("Erro ao criar perfil", Some("Erro desconhecido"))]
    ELSE IF r.data[1].user = None
    THEN [done |-> TRUE, result |-> NotFixed("Usuário não autenticado", None)]
    ELSE [done |-> FALSE, call |-> "insert", arg |-> NewProfile(r.data[1].user[1])]

missingProfileFixInsert(r) ==
    IF r.kind = "throw"
    THEN NotFixed("Erro ao criar perfil", Some("Erro desconhecido"))
    ELSE IF r.error # None THEN NotFixed("Erro ao criar perfil", Some(r.error[1].message))
    ELSE Fixed("Perfil criado com sucesso")

\* corsFix reporting that the origin was added
corsFixSucceeds == Fixed("CORS configurado")

corsFix ==
    NotFixed("CORS deve ser configurado no servidor",
             Some("Adicione sua origem às configurações de CORS do Supabase"))

\* FixBegin with a connectivity fix that reconnects by signing out
FixBeginReconnectBySignOut(id) ==
    CASE id = "session_expired" -> [done |-> FALSE, call |-> "refreshSession", arg |-> None]
      [] id = "invalid_token" -> [done |-> FALSE, call |-> "signOut", arg |-> None]
      [] id = "connectivity" -> [done |-> FALSE, call |-> "signOut", arg |-> None]
      [] id = "missing_profile" -> [done |-> FALSE, call |-> "getUser", arg |-> None]
      [] OTHER -> [done |-> TRUE, result |-> corsFix]

\* The synchronous head of fix()
FixBegin(id) ==
    CASE id = "session_expired" -> [done |-> FALSE, call |-> "refreshSession", arg |-> None]
      [] id = "invalid_token" -> [done |-> FALSE, call |-> "signOut", arg |-> None]
      [] id = "connectivity" -> [done |-> FALSE, call |-> "getSession", arg |-> None]
      [] id = "missing_profile" -> [done |-> FALSE, call |-> "getUser", arg |-> None]
      [] OTHER -> [done |-> TRUE, result |-> corsFix]

\* fix() resumed with the response r to the call it awaited
FixResume(id, call, r) ==
    CASE id = "session_expired" -> [done |-> TRUE, result |-> sessionExpiredFix(r)]
      [] id = "invalid_token" -> [done |-> TRUE, result |-> invalidTokenFix(r)]
      [] id = "connectivity" -> [done |-> TRUE, result |-> connectivityFix(r)]
      [] OTHER ->
            IF call = "getUser" THEN missingProfileFixUser(r)
            ELSE [done |-> TRUE, result |-> missingProfileFixInsert(r)]

-----------------------------------------------------------------------------
(* diagnoseAuthProblems and applyAuthFixes                                 *)

AnyRejected(settledSeq) ==
    \E i \in 1..Len(settledSeq) : settledSeq[i].settled = "rejected"

\* CountSeverity without the hasProblem test
CountSeverityAll(results, sev) ==
    Len(SelectSeq(results, LAMBDA r : r.problem.severity = sev))

\* results.filter(r => r.hasProblem && r.problem.severity === sev).length
CountSeverity(results, sev) ==
    Len(SelectSeq(results, LAMBDA r : r.hasProblem /\ r.problem.severity = sev))

DiagnoseSummary(results) ==
    [total |-> Len(SelectSeq(results, LAMBDA r : r.hasProblem)),
     critical |-> CountSeverity(results, "critical"),
     high |-> CountSeverity(results, "high"),
     medium |-> CountSeverity(results, "medium"),
     low |-> CountSeverity(results, "low")]

\* DiagnoseResults keeping only the entries whose check reported a problem
DiagnoseResultsOnlyProblems(cr) ==
    SelectSeq([i \in 1..Len(authProblems) |->
                  [problem |-> authProblems[i], hasProblem |-> cr[i].hasProblem,
                   details |-> cr[i].details]],
              LAMBDA r : r.hasProblem)

\* DiagnoseResults with the entries in the order the checks settled in
DiagnoseResultsAsSettled(cr) ==
    [k \in 1..Len(completion) |->
        [problem |-> authProblems[completion[k]],
         hasProblem |-> cr[completion[k]].hasProblem,
         details |-> cr[completion[k]].details]]

\* The array Promise.all resolves to: one entry per registry entry, in
\* registry order
DiagnoseResults(cr) ==
    [i \in 1..Len(authProblems) |->
        [problem |-> authProblems[i], hasProblem |-> cr[i].hasProblem,
         details |-> cr[i].details]]

\* What diagnoseAuthProblems settles to, given what the checks settled to
DiagnoseResult(cr) ==
    IF AnyRejected(cr) THEN Rejected
    ELSE [settled |-> "fulfilled", problems |-> DiagnoseResults(cr),
          summary |-> DiagnoseSummary(DiagnoseResults(cr))]

\* problemsToFix without the filter: every diagnosed entry is fixed
ProblemsToFixAll(problems) == problems

\* problemsToFix taken from the result of the last diagnoseAuthProblems the
\* caller holds, when there is one, instead of this pass's own diagnosis
ProblemsToFixStale(problems) ==
    IF diagnostics = None THEN SelectSeq(problems, LAMBDA p : p.hasProblem)
    ELSE SelectSeq(diagnostics[1].problems, LAMBDA p : p.hasProblem)

\* problemsToFix leaving out the problems an invocation is fixing already
ProblemsToFixNotInFlight(problems) ==
    SelectSeq(problems, LAMBDA p :
        /\ p.hasProblem
        /\ \A k \in DOMAIN problemsToFix : problemsToFix[k].problem.id # p.problem.id
        /\ \A k \in DOMAIN other.problemsToFix :
                other.problemsToFix[k].problem.id # p.problem.id)

\* problems.filter(p => p.hasProblem)
ProblemsToFix(problems) == SelectSeq(problems, LAMBDA p : p.hasProblem)

ApplyResults(toFix, fr) ==
    [k \in 1..Len(toFix) |->
        [problem |-> toFix[k].problem, success |-> fr[k].success,
         message |-> fr[k].message, details |-> fr[k].details]]

\* ApplySummary with the failed filter missing its negation
ApplySummaryFailedAsSuccess(results) ==
    [total |-> Len(results),
     successful |-> Len(SelectSeq(results, LAMBDA r : r.success)),
     failed |-> Len(SelectSeq(results, LAMBDA r : r.success))]

ApplySummary(results) ==
    [total |-> Len(results),
     successful |-> Len(SelectSeq(results, LAMBDA r : r.success)),
     failed |-> Len(SelectSeq(results, LAMBDA r : ~r.success))]

\* What applyAuthFixes settles to, given what the fixes settled to
ApplyResult(toFix, fr) ==
    IF AnyRejected(fr) THEN Rejected
    ELSE [settled |-> "fulfilled", applied |-> ApplyResults(toFix, fr),
          summary |-> ApplySummary(ApplyResults(toFix, fr))]

DonePc == [call |-> "done", arg |-> None]
AllDone(pcs) == \A i \in 1..Len(pcs) : pcs[i].call = "done"
ProblemIds == {authProblems[i].id : i \in 1..Len(authProblems)}

Begin(step) == IF step.done THEN DonePc ELSE [call |-> step.call, arg |-> step.arg]

\* The provider calls issued by the steps begun
CallsBegun(begin) ==
    [c \in ProviderCalls |->
        Cardinality({k \in DOMAIN begin : ~begin[k].done /\ begin[k].call = c})]
AddCalls(a, b) == [c \in ProviderCalls |-> a[c] + b[c]]
AddCall(a, step) ==
    IF step.done THEN a ELSE [a EXCEPT ![step.call] = @ + 1]

\* What an operation finds when it begins
Snapshot ==
    [session |-> session, user_profiles |-> user_profiles,
     localStorage |-> localStorage, sessionStorage |-> sessionStorage]

\* authProblems.map(async problem => await problem.check()): every check runs
\* up to its first await
StartChecks(o) ==
    /\ phase \in {"idle", "resolved"}
    /\ op' = o
    /\ phase' = "checking"
    /\ LET begin == [i \in 1..Len(authProblems) |-> CheckBegin(authProblems[i].id)] IN
        /\ checkPc' = [i \in 1..Len(authProblems) |-> Begin(begin[i])]
        /\ checkRes' = [i \in 1..Len(authProblems) |->
                            IF begin[i].done THEN begin[i].result ELSE Pending]
        /\ checkCalls' = [i \in 1..Len(authProblems) |-> IF begin[i].done THEN 0 ELSE 1]
        /\ calls' = CallsBegun(begin)
    /\ storageTouched' = FALSE
    /\ before' = Snapshot
    /\ checkResp' = [i \in 1..Len(authProblems) |-> <<>>]
    /\ outOfOrder' = FALSE
    /\ problemsToFix' = <<>>
    /\ fixPc' = <<>>
    /\ fixResp' = <<>>
    /\ fixRes' = <<>>
    /\ fixInvoked' = [id \in ProblemIds |-> 0]
    /\ ret' = Pending
    /\ UNCHANGED <<other, hung, videos>>
    /\ UNCHANGED <<provider, authProblems, browser>>

\* AuthFixer.runDiagnostics calls diagnoseAuthProblems
DiagnoseStart ==
    /\ StartChecks("diagnose")
    /\ diagnostics' = None
    /\ fixResults' = None
    /\ completion' = <<>>

\* AuthFixer.applyFixes calls applyAuthFixes
ApplyStart ==
    /\ StartChecks("apply")
    /\ fixResults' = None
    /\ UNCHANGED <<diagnostics, completion>>

\* await with a deadline: a call that never answers is given up, and the
\* await throws
AwaitWithDeadline(call, arg) ==
    [returns |-> TRUE, r |-> IF call \in hung THEN Throws ELSE Respond(call, arg)]

\* await call(arg): whether it ever resumes, and the response it resumes with
Await(call, arg) == [returns |-> call \notin hung, r |-> Respond(call, arg)]

\* The provider call awaited by check i returns and the check runs on
CheckResumes(i) ==
    /\ phase = "checking"
    /\ i \in DOMAIN checkPc
    /\ checkPc[i].call # "done"
    /\ Await(checkPc[i].call, checkPc[i].arg).returns
    /\ LET call == checkPc[i].call
           arg == checkPc[i].arg
           r == Await(call, arg).r
           step == CheckResume(authProblems[i].id, call, r)
       IN
        /\ checkResp' = [checkResp EXCEPT ![i] = Append(@, r)]
        /\ checkPc' = [checkPc EXCEPT ![i] = Begin(step)]
        /\ checkRes' = [checkRes EXCEPT ![i] = IF step.done THEN step.result ELSE @]
        /\ checkCalls' = [checkCalls EXCEPT ![i] = IF step.done THEN @ ELSE @ + 1]
        /\ calls' = AddCall(calls, step)
        /\ outOfOrder' = (outOfOrder \/
                (step.done /\ \E j \in 1..(i - 1) : checkPc[j].call # "done"))
        /\ session' = SessionAfter(call)
        /\ user_profiles' = ProfilesAfter(call, arg)
    /\ UNCHANGED <<other, hung, videos>>
    /\ UNCHANGED <<origin, latency, sessMode, userMode, refreshMode, signOutMode, dbMode>>
    /\ UNCHANGED <<authProblems, op, phase, problemsToFix, fixPc, fixResp, fixRes,
                   fixInvoked, ret, caller, browser, storageTouched, before>>

CheckReturn(i) ==
    /\ CheckResumes(i)
    /\ UNCHANGED completion

\* The same two steps of a diagnosis, with the order the checks settle in
\* written down
DiagnoseStartOrdered ==
    /\ StartChecks("diagnose")
    /\ diagnostics' = None
    /\ fixResults' = None
    /\ completion' = SelectSeq([i \in 1..Len(authProblems) |-> i],
                               LAMBDA i : CheckBegin(authProblems[i].id).done)

CheckReturnOrdered(i) ==
    /\ CheckResumes(i)
    /\ completion' = IF checkPc'[i].call = "done" THEN Append(completion, i)
                      ELSE completion

\* Promise.all of the checks has settled: diagnoseAuthProblems returns
DiagnoseResolve ==
    /\ phase = "checking"
    /\ op = "diagnose"
    /\ AllDone(checkPc)
    /\ ret' = DiagnoseResult(checkRes)
    /\ diagnostics' = IF ret'.settled = "fulfilled" THEN Some(ret') ELSE diagnostics
    /\ phase' = "resolved"
    /\ UNCHANGED <<other, hung, videos>>
    /\ UNCHANGED <<provider, authProblems, op, checkPc, checkResp, checkRes, checkCalls,
                   outOfOrder, problemsToFix, fixPc, fixResp, fixRes, fixInvoked,
                   fixResults, browser, history, completion>>

\* applyAuthFixes after `await diagnoseAuthProblems()`: every selected fix
\* runs up to its first await
ApplyFixStart ==
    /\ phase = "checking"
    /\ op = "apply"
    /\ AllDone(checkPc)
    /\ LET d == DiagnoseResult(checkRes)
           toFix == IF d.settled = "fulfilled" THEN ProblemsToFix(d.problems) ELSE <<>>
           begin == [k \in 1..Len(toFix) |-> FixBegin(toFix[k].problem.id)]
       IN
        /\ problemsToFix' = toFix
        /\ fixPc' = [k \in 1..Len(toFix) |-> Begin(begin[k])]
        /\ fixRes' = [k \in 1..Len(toFix) |->
                          IF begin[k].done THEN begin[k].result ELSE Pending]
        /\ fixResp' = [k \in 1..Len(toFix) |-> <<>>]
        /\ fixInvoked' = [id \in ProblemIds |->
                Cardinality({k \in 1..Len(toFix) : toFix[k].problem.id = id})]
        /\ calls' = AddCalls(calls, CallsBegun(begin))
        /\ ret' = IF d.settled = "fulfilled" THEN ret ELSE Rejected
        /\ phase' = IF d.settled = "fulfilled" THEN "fixing" ELSE "resolved"
    /\ UNCHANGED <<other, hung, videos>>
    /\ UNCHANGED <<provider, authProblems, op, checkPc, checkResp, checkRes, checkCalls,
                   outOfOrder, caller, browser, storageTouched, before, completion>>

\* The provider call awaited by the k-th selected fix returns (the provider
\* has served it) and the fix runs on
FixReturn(k) ==
    /\ phase = "fixing"
    /\ k \in DOMAIN fixPc
    /\ fixPc[k].call # "done"
    /\ Await(fixPc[k].call, fixPc[k].arg).returns
    /\ LET call == fixPc[k].call
           arg == fixPc[k].arg
           r == Await(call, arg).r
           step == FixResume(problemsToFix[k].problem.id, call, r)
       IN
        /\ fixResp' = [fixResp EXCEPT ![k] = Append(@, r)]
        /\ fixPc' = [fixPc EXCEPT ![k] = Begin(step)]
        /\ fixRes' = [fixRes EXCEPT ![k] = IF step.done THEN step.result ELSE @]
        /\ calls' = AddCall(calls, step)
        /\ session' = SessionAfter(call)
        /\ user_profiles' = ProfilesAfter(call, arg)
    /\ UNCHANGED <<other, hung, videos>>
    /\ UNCHANGED <<origin, latency, sessMode, userMode, refreshMode, signOutMode, dbMode>>
    /\ UNCHANGED <<authProblems, op, phase, checkPc, checkResp, checkRes, checkCalls,
                   outOfOrder, problemsToFix, fixInvoked, ret, caller, browser,
                   storageTouched, before, completion>>

\* Promise.all of the fixes has settled: applyAuthFixes returns
ApplyResolve ==
    /\ phase = "fixing"
    /\ AllDone(fixPc)
    /\ ret' = ApplyResult(problemsToFix, fixRes)
    /\ fixResults' = IF ret'.settled = "fulfilled" THEN Some(ret') ELSE fixResults
    /\ phase' = "resolved"
    /\ UNCHANGED <<other, hung, videos>>
    /\ UNCHANGED <<provider, authProblems, op, checkPc, checkResp, checkRes, checkCalls,
                   outOfOrder, problemsToFix, fixPc, fixResp, fixRes, fixInvoked,
                   diagnostics, browser, history, completion>>

-----------------------------------------------------------------------------

(***************************************************************************)
(* The helper functions: clearAuthData, needsReauthentication and          *)
(* forceSessionRefresh.                                                    *)
(***************************************************************************)

\* What a helper resolves with
Answer(v) == [settled |-> "fulfilled", value |-> v]
Outcome(ok, m) == [settled |-> "fulfilled", success |-> ok, message |-> m]

ReauthWindowSec == 300

\* Math.floor(Date.now() / 1000)
NowOf(nowMs) == nowMs \div 1000

\* needsReauthentication asking only whether the session has expired already
needsReauthenticationExpiredOnly(r, nowMs) ==
    IF r.kind = "throw" \/ r.data = None THEN Answer(TRUE)
    ELSE IF r.error # None THEN Answer(TRUE)
    ELSE IF r.data[1].session = None THEN Answer(TRUE)
    ELSE LET expiresAt == r.data[1].session[1].expires_at IN
        IF expiresAt # None /\ expiresAt[1] # 0
        THEN Answer(expiresAt[1] - NowOf(nowMs) < 0)
        ELSE Answer(FALSE)

\* needsReauthentication without the test that an expiry is there: a missing
\* expires_at counts as 0
needsReauthenticationNoExpiryTest(r, nowMs) ==
    IF r.kind = "throw" \/ r.data = None THEN Answer(TRUE)
    ELSE IF r.error # None THEN Answer(TRUE)
    ELSE IF r.data[1].session = None THEN Answer(TRUE)
    ELSE LET expiresAt == r.data[1].session[1].expires_at
             at == IF expiresAt = None THEN 0 ELSE expiresAt[1]
         IN Answer(at - NowOf(nowMs) < ReauthWindowSec)

\* needsReauthentication, on the response to its getSession
needsReauthentication(r, nowMs) ==
    IF r.kind = "throw" \/ r.data = None THEN Answer(TRUE)
    ELSE IF r.error # None THEN Answer(TRUE)
    ELSE IF r.data[1].session = None THEN Answer(TRUE)
    ELSE LET expiresAt == r.data[1].session[1].expires_at IN
        IF expiresAt # None /\ expiresAt[1] # 0
        THEN LET timeUntilExpiry == expiresAt[1] - NowOf(nowMs) IN
            Answer(timeUntilExpiry < ReauthWindowSec)
        ELSE Answer(FALSE)

\* forceSessionRefresh taking the absence of an error for a renewed session
forceSessionRefreshNoError(r) ==
    IF r.kind = "throw" \/ (r.error = None /\ r.data = None)
    THEN Outcome(FALSE, "Erro ao renovar sessão")
    ELSE IF r.error # None THEN Outcome(FALSE, "Falha ao renovar sessão")
    ELSE Outcome(TRUE, "Sessão renovada com sucesso")

\* forceSessionRefresh, on the response to its refreshSession
forceSessionRefresh(r) ==
    IF r.kind = "throw" \/ (r.error = None /\ r.data = None)
    THEN Outcome(FALSE, "Erro ao renovar sessão")
    ELSE IF r.error # None THEN Outcome(FALSE, "Falha ao renovar sessão")
    ELSE IF r.data[1].session # None THEN Outcome(TRUE, "Sessão renovada com sucesso")
    ELSE Outcome(FALSE, "Sessão não pôde ser renovada")

\* key && (key.includes('supabase') || key.includes('auth'))
MatchesAuthKey(key) == key # "" /\ (includes(key, "supabase") \/ includes(key, "auth"))

\* storage.removeItem(key)
removeItem(storage, key) == SelectSeq(storage, LAMBDA e : e.key # key)

\* The first loop over a storage: the matching keys, in key(i) order
KeysToRemove(storage) ==
    SelectSeq([i \in 1..Len(storage) |-> storage[i].key], LAMBDA k : MatchesAuthKey(k))

RECURSIVE RemoveKeys(_, _)
\* keysToRemove.forEach(key => storage.removeItem(key))
RemoveKeys(storage, keys) ==
    IF keys = <<>> THEN storage
    ELSE RemoveKeys(removeItem(storage, Head(keys)), Tail(keys))

RECURSIVE RemoveFrom(_, _)
\* One loop that removes a matching key as soon as it meets it, at index i
RemoveFrom(storage, i) ==
    IF i > Len(storage) THEN storage
    ELSE IF MatchesAuthKey(storage[i].key)
    THEN RemoveFrom(removeItem(storage, storage[i].key), i + 1)
    ELSE RemoveFrom(storage, i + 1)

\* The wipe done in one pass: the indices shift under the loop
WipeWhileEnumerating(storage) == RemoveFrom(storage, 1)

\* The wipe of one storage: collect the matching keys, then remove them
Wipe(storage) == RemoveKeys(storage, KeysToRemove(storage))

StorageModes == {"ok", "keyThrows", "removeThrows"}

\* The two wipes of clearAuthData, up to the first storage access that throws:
\* localStorage.key throws under "keyThrows", sessionStorage.removeItem
\* under "removeThrows"
WipeBoth(local, sess, mode) ==
    IF mode = "keyThrows"
    THEN [localStorage |-> local, sessionStorage |-> sess, threw |-> TRUE]
    ELSE IF mode = "removeThrows" /\ KeysToRemove(sess) # <<>>
    THEN [localStorage |-> Wipe(local), sessionStorage |-> sess, threw |-> TRUE]
    ELSE [localStorage |-> Wipe(local), sessionStorage |-> Wipe(sess), threw |-> FALSE]

ClearSucceeded == Outcome(TRUE, "Dados de autenticação limpos com sucesso")
ClearFailed == Outcome(FALSE, "Erro ao limpar dados de autenticação")

\* clearAuthData reporting a failure when the sign-out answers with an error
clearAuthDataErrorFails(local, sess, mode, r) ==
    LET w == WipeBoth(local, sess, mode) IN
    [localStorage |-> w.localStorage, sessionStorage |-> w.sessionStorage,
     signedOut |-> ~w.threw,
     ret |-> IF w.threw \/ r.kind = "throw" \/ r.error # None
             THEN ClearFailed ELSE ClearSucceeded]

\* clearAuthData: the storages it leaves, whether it reached the sign-out, and
\* what it resolves with; r is the sign-out's response
clearAuthData(local, sess, mode, r) ==
    LET w == WipeBoth(local, sess, mode) IN
    [localStorage |-> w.localStorage, sessionStorage |-> w.sessionStorage,
     signedOut |-> ~w.threw,
     ret |-> IF w.threw \/ r.kind = "throw" THEN ClearFailed ELSE ClearSucceeded]

\* A helper begins: it is one call with one await at most
HelperBegins(o) ==
    /\ phase \in {"idle", "resolved"}
    /\ op' = o
    /\ phase' = "resolved"
    /\ before' = Snapshot
    /\ UNCHANGED <<other, hung, videos>>
    /\ UNCHANGED <<origin, user_profiles, latency, sessMode, userMode, refreshMode,
                   signOutMode, dbMode>>
    /\ UNCHANGED <<authProblems, checkPc, checkResp, checkRes, checkCalls, outOfOrder,
                   problemsToFix, fixPc, fixResp, fixRes, fixInvoked>>
    /\ UNCHANGED <<caller, clock, storageMode, completion>>

NeedsReauth ==
    /\ HelperBegins("needsReauth")
    /\ ret' = needsReauthentication(getSession, clock)
    /\ calls' = [NoCalls EXCEPT !["getSession"] = 1]
    /\ storageTouched' = FALSE
    /\ UNCHANGED <<session, localStorage, sessionStorage>>

ForceRefresh ==
    /\ HelperBegins("forceRefresh")
    /\ ret' = forceSessionRefresh(refreshSession)
    /\ session' = SessionAfter("refreshSession")
    /\ calls' = [NoCalls EXCEPT !["refreshSession"] = 1]
    /\ storageTouched' = FALSE
    /\ UNCHANGED <<localStorage, sessionStorage>>

ClearAuthData ==
    /\ HelperBegins("clear")
    /\ LET out == clearAuthData(localStorage, sessionStorage, storageMode, signOut) IN
        /\ ret' = out.ret
        /\ localStorage' = out.localStorage
        /\ sessionStorage' = out.sessionStorage
        /\ session' = IF out.signedOut THEN SessionAfter("signOut") ELSE session
        /\ calls' = [NoCalls EXCEPT !["signOut"] = IF out.signedOut THEN 1 ELSE 0]
    /\ storageTouched' = TRUE

\* An invocation that has not begun
OtherIdle ==
    [op |-> "none", phase |-> "idle", checkPc |-> <<>>, checkRes |-> <<>>,
     problemsToFix |-> <<>>, fixPc |-> <<>>, fixRes |-> <<>>, calls |-> NoCalls,
     ret |-> Pending]

(***************************************************************************)
(* A second invocation beside the first: applyAuthFixes called again, or   *)
(* forceSessionRefresh, while the first has not resolved. Its steps are    *)
(* the steps of the first, kept in the record other.                       *)
(***************************************************************************)

\* Nothing of the first invocation, the browser or the caller changes
OtherAlone ==
    UNCHANGED <<origin, latency, sessMode, userMode, refreshMode, signOutMode, dbMode,
                authProblems, engine, caller, browser, history, completion, hung,
                videos>>

\* applyAuthFixes is called: every check runs up to its first await
OtherApplyStart ==
    /\ other.phase = "idle"
    /\ LET begin == [i \in 1..Len(authProblems) |-> CheckBegin(authProblems[i].id)] IN
        other' = [OtherIdle EXCEPT
            !.op = "apply",
            !.phase = "checking",
            !.checkPc = [i \in 1..Len(authProblems) |-> Begin(begin[i])],
            !.checkRes = [i \in 1..Len(authProblems) |->
                            IF begin[i].done THEN begin[i].result ELSE Pending],
            !.calls = CallsBegun(begin)]
    /\ UNCHANGED <<session, user_profiles>>
    /\ OtherAlone

OtherCheckReturn(i) ==
    /\ other.phase = "checking"
    /\ i \in DOMAIN other.checkPc
    /\ other.checkPc[i].call # "done"
    /\ Await(other.checkPc[i].call, other.checkPc[i].arg).returns
    /\ LET call == other.checkPc[i].call
           arg == other.checkPc[i].arg
           step == CheckResume(authProblems[i].id, call, Await(call, arg).r)
       IN
        /\ other' = [other EXCEPT
                !.checkPc[i] = Begin(step),
                !.checkRes[i] = IF step.done THEN step.result ELSE @,
                !.calls = AddCall(@, step)]
        /\ session' = SessionAfter(call)
        /\ user_profiles' = ProfilesAfter(call, arg)
    /\ OtherAlone

OtherFixStart ==
    /\ other.phase = "checking"
    /\ AllDone(other.checkPc)
    /\ LET d == DiagnoseResult(other.checkRes)
           toFix == IF d.settled = "fulfilled" THEN ProblemsToFix(d.problems) ELSE <<>>
           begin == [k \in 1..Len(toFix) |-> FixBegin(toFix[k].problem.id)]
       IN
        other' = [other EXCEPT
            !.phase = IF d.settled = "fulfilled" THEN "fixing" ELSE "resolved",
            !.problemsToFix = toFix,
            !.fixPc = [k \in 1..Len(toFix) |-> Begin(begin[k])],
            !.fixRes = [k \in 1..Len(toFix) |->
                            IF begin[k].done THEN begin[k].result ELSE Pending],
            !.calls = AddCalls(@, CallsBegun(begin)),
            !.ret = IF d.settled = "fulfilled" THEN @ ELSE Rejected]
    /\ UNCHANGED <<session, user_profiles>>
    /\ OtherAlone

OtherFixReturn(k) ==
    /\ other.phase = "fixing"
    /\ k \in DOMAIN other.fixPc
    /\ other.fixPc[k].call # "done"
    /\ Await(other.fixPc[k].call, other.fixPc[k].arg).returns
    /\ LET call == other.fixPc[k].call
           arg == other.fixPc[k].arg
           step == FixResume(other.problemsToFix[k].problem.id, call, Await(call, arg).r)
       IN
        /\ other' = [other EXCEPT
                !.fixPc[k] = Begin(step),
                !.fixRes[k] = IF step.done THEN step.result ELSE @,
                !.calls = AddCall(@, step)]
        /\ session' = SessionAfter(call)
        /\ user_profiles' = ProfilesAfter(call, arg)
    /\ OtherAlone

OtherResolve ==
    /\ other.phase = "fixing"
    /\ AllDone(other.fixPc)
    /\ other' = [other EXCEPT
            !.phase = "resolved",
            !.ret = ApplyResult(other.problemsToFix, other.fixRes)]
    /\ UNCHANGED <<session, user_profiles>>
    /\ OtherAlone

\* forceSessionRefresh is called beside the first invocation
OtherForceRefresh ==
    /\ other.phase = "idle"
    /\ other' = [OtherIdle EXCEPT
            !.op = "forceRefresh",
            !.phase = "resolved",
            !.calls = [NoCalls EXCEPT !["refreshSession"] = 1],
            !.ret = forceSessionRefresh(refreshSession)]
    /\ session' = SessionAfter("refreshSession")
    /\ UNCHANGED user_profiles
    /\ OtherAlone

\* The video upload service after construction, on an empty bucket
VideoIdle == [op |-> "none", ret |-> Pending, ops |-> 0, before |-> {}]
NoVideos ==
    /\ bucket = {}
    /\ gcsMode = "ok"
    /\ video = VideoIdle

\* The engine after the module has loaded: no operation begun
AuthIdle ==
    /\ other = OtherIdle
    /\ authProblems = Registry
    /\ op = "none"
    /\ phase = "idle"
    /\ checkPc = <<>>
    /\ checkResp = <<>>
    /\ checkRes = <<>>
    /\ checkCalls = <<>>
    /\ outOfOrder = FALSE
    /\ problemsToFix = <<>>
    /\ fixPc = <<>>
    /\ fixResp = <<>>
    /\ fixRes = <<>>
    /\ fixInvoked = [id \in {Registry[i].id : i \in 1..Len(Registry)} |-> 0]
    /\ ret = Pending
    /\ diagnostics = None
    /\ fixResults = None
    /\ calls = NoCalls
    /\ storageTouched = FALSE
    /\ before = Snapshot
    /\ completion = <<>>

\* The whole program after loading
EngineIdle == NoVideos /\ AuthIdle

Origins == {"http://localhost:5173", "http://127.0.0.1:3000", "https://app.seuauge.com"}
Latencies == {SlowResponseMs, SlowResponseMs + 1}

\* How many of the provider's operations misbehave at once
MaxFaults == 2

Faults ==
    (IF sessMode = "ok" THEN 0 ELSE 1) + (IF userMode = "ok" THEN 0 ELSE 1)
    + (IF refreshMode = "session" THEN 0 ELSE 1) + (IF signOutMode = "ok" THEN 0 ELSE 1)
    + (IF dbMode = "ok" THEN 0 ELSE 1) + (IF latency > SlowResponseMs THEN 1 ELSE 0)
    + (IF storageMode = "ok" THEN 0 ELSE 1)

Init ==
    /\ origin \in Origins
    /\ session \in {None, Some(ActiveSession)}
    /\ user_profiles \in {{}, {NewProfile(TheUser)}}
    /\ latency \in Latencies
    /\ sessMode \in SessModes
    /\ userMode \in UserModes
    /\ refreshMode \in RefreshModes
    /\ signOutMode \in SignOutModes
    /\ dbMode \in DbModes
    /\ storageMode = "ok"
    /\ hung = {}
    /\ Faults <= MaxFaults
    /\ clock = NowSec * 1000
    /\ localStorage = <<>>
    /\ sessionStorage = <<>>
    /\ EngineIdle

Next ==
    \/ DiagnoseStart
    \/ ApplyStart
    \/ \E i \in 1..Len(authProblems) : CheckReturn(i)
    \/ DiagnoseResolve
    \/ ApplyFixStart
    \/ \E k \in 1..Len(problemsToFix) : FixReturn(k)
    \/ ApplyResolve

Spec == Init /\ [][Next]_vars

\* A diagnosis alone, from every provider state, with the order the checks
\* settle in written down
InitOrder ==
    /\ Init
    /\ refreshMode = "session"
    /\ signOutMode = "ok"

NextOrder ==
    \/ DiagnoseStartOrdered
    \/ \E i \in 1..Len(authProblems) : CheckReturnOrdered(i)
    \/ DiagnoseResolve

SpecOrder == InitOrder /\ [][NextOrder]_vars

\* The sessions the helpers are tried on: none, and sessions whose expires_at
\* is absent, zero, past, and just inside, on and outside the window
Sessions ==
    {None} \cup {Some(SessionExpiring(e)) : e \in
        {None, Some(0), Some(NowSec - 10), Some(NowSec + ReauthWindowSec - 1),
         Some(NowSec + ReauthWindowSec), Some(NowSec + ReauthWindowSec + 1),
         Some(NowSec + 3600)}}

Entry(k, v) == [key |-> k, value |-> v]
LocalStorages ==
    { <<>>,
      <<Entry("theme", "dark"), Entry("sb-supabase-auth-token", "eyJ"),
        Entry("supabase.auth.token", "eyK"), Entry("cart", "3")>>,
      <<Entry("Authority", "x"), Entry("oauth_state", "s1"), Entry("lang", "pt")>> }
SessionStorages ==
    { <<>>, <<Entry("scroll", "120"), Entry("auth-redirect", "/perfil")>> }

InitHelpers ==
    /\ origin = "https://app.seuauge.com"
    /\ session \in Sessions
    /\ user_profiles = {}
    /\ latency = SlowResponseMs
    /\ sessMode \in SessModes
    /\ userMode = "ok"
    /\ refreshMode \in RefreshModes
    /\ signOutMode \in SignOutModes
    /\ dbMode = "ok"
    /\ storageMode \in StorageModes
    /\ hung = {}
    /\ Faults <= MaxFaults
    /\ clock \in ClockValues
    /\ localStorage \in LocalStorages
    /\ sessionStorage \in SessionStorages
    /\ EngineIdle

NextHelpers ==
    \/ NeedsReauth
    \/ ForceRefresh
    \/ ClearAuthData

SpecHelpers == InitHelpers /\ [][NextHelpers]_vars

\* The users a profile is created for: with and without an email, with and
\* without a name in their metadata
Users ==
    {[id |-> "user-1", email |-> e, name |-> n] :
        e \in {None, Some("ana@example.com")}, n \in {None, Some("Ana")}}
SessionOf(u) == [user |-> u, expires_at |-> Some(NowSec + 3600)]

\* The engine, for each of these users signed in, and for nobody signed in
InitProfile ==
    /\ origin = "https://app.seuauge.com"
    /\ session \in {None} \cup {Some(SessionOf(u)) : u \in Users}
    /\ user_profiles \in {{}, {NewProfile(TheUser)}}
    /\ latency = SlowResponseMs
    /\ sessMode = "ok"
    /\ userMode \in UserModes
    /\ refreshMode = "session"
    /\ signOutMode = "ok"
    /\ dbMode \in DbModes
    /\ storageMode = "ok"
    /\ hung = {}
    /\ Faults <= MaxFaults
    /\ clock = NowSec * 1000
    /\ localStorage = <<>>
    /\ sessionStorage = <<>>
    /\ EngineIdle

SpecProfile == InitProfile /\ [][Next]_vars

\* Two invocations side by side, for a user with or without a session and
\* without a profile
InitOverlap ==
    /\ origin = "http://localhost:5173"
    /\ session \in {None, Some(ActiveSession)}
    /\ user_profiles = {}
    /\ latency = SlowResponseMs
    /\ sessMode = "ok"
    /\ userMode \in {"ok", "errJWT"}
    /\ refreshMode = "session"
    /\ signOutMode = "ok"
    /\ dbMode \in {"ok", "error"}
    /\ storageMode = "ok"
    /\ hung = {}
    /\ Faults <= MaxFaults
    /\ clock = NowSec * 1000
    /\ localStorage = <<>>
    /\ sessionStorage = <<>>
    /\ EngineIdle

NextOverlap ==
    \/ ApplyStart
    \/ \E i \in 1..Len(authProblems) : CheckReturn(i)
    \/ ApplyFixStart
    \/ \E k \in 1..Len(problemsToFix) : FixReturn(k)
    \/ ApplyResolve
    \/ OtherApplyStart
    \/ \E i \in 1..Len(authProblems) : OtherCheckReturn(i)
    \/ OtherFixStart
    \/ \E k \in 1..Len(other.problemsToFix) : OtherFixReturn(k)
    \/ OtherResolve
    \/ OtherForceRefresh

SpecOverlap == InitOverlap /\ [][NextOverlap]_vars

\* The engine on a provider one of whose operations may never answer. Every
\* call that is answered lets its check or fix run on, and a pass whose
\* checks or fixes have all settled runs to its end: the event loop runs
\* every continuation that is ready.
InitLive ==
    /\ origin = "https://app.seuauge.com"
    /\ session \in {None, Some(ActiveSession)}
    /\ user_profiles = {}
    /\ latency = SlowResponseMs
    /\ sessMode = "ok"
    /\ userMode = "ok"
    /\ refreshMode = "session"
    /\ signOutMode \in {"ok", "throw"}
    /\ dbMode \in {"ok", "error"}
    /\ storageMode = "ok"
    /\ hung \in {{}} \cup {{c} : c \in ProviderCalls}
    /\ Faults <= MaxFaults
    /\ clock = NowSec * 1000
    /\ localStorage = <<>>
    /\ sessionStorage = <<>>
    /\ EngineIdle

Fairness ==
    /\ \A i \in 1..Len(Registry) : WF_vars(CheckReturn(i))
    /\ \A k \in 1..Len(Registry) : WF_vars(FixReturn(k))
    /\ WF_vars(DiagnoseResolve)
    /\ WF_vars(ApplyFixStart)
    /\ WF_vars(ApplyResolve)

SpecLive == InitLive /\ [][Next]_vars /\ Fairness

\* The engine and the helpers together, called one after the other in any
\* order, with credentials in both storages
InitReads ==
    /\ origin \in {"http://localhost:5173", "https://app.seuauge.com"}
    /\ session \in {None, Some(ActiveSession)}
    /\ user_profiles \in {{}, {NewProfile(TheUser)}}
    /\ latency = SlowResponseMs
    /\ sessMode \in SessModes
    /\ userMode \in UserModes
    /\ refreshMode = "session"
    /\ signOutMode = "ok"
    /\ dbMode = "ok"
    /\ storageMode = "ok"
    /\ hung = {}
    /\ Faults <= MaxFaults
    /\ clock = NowSec * 1000
    /\ localStorage = <<Entry("theme", "dark"), Entry("sb-supabase-auth-token", "eyJ")>>
    /\ sessionStorage = <<Entry("auth-redirect", "/perfil")>>
    /\ EngineIdle

NextReads ==
    \/ Next
    \/ NextHelpers

SpecReads == InitReads /\ [][NextReads]_vars

-----------------------------------------------------------------------------
(* Properties                                                              *)

Checks == DOMAIN checkRes
Fixes == DOMAIN fixRes
CheckSettled(i) == checkRes[i].settled = "fulfilled"
FixSettled(k) == fixRes[k].settled = "fulfilled"
\* check i / fix k received an exception from a provider call it made
CheckSawThrow(i) == \E n \in DOMAIN checkResp[i] : checkResp[i][n].kind = "throw"
FixSawThrow(k) == \E n \in DOMAIN fixResp[k] : fixResp[k][n].kind = "throw"
\* check i received an error result (no exception) from a provider call
CheckSawError(i) ==
    \E n \in DOMAIN checkResp[i] :
        checkResp[i][n].kind = "value" /\ checkResp[i][n].error # None
LastResp(i) == checkResp[i][Len(checkResp[i])]
DiagnoseResolved == op = "diagnose" /\ phase = "resolved"
ApplyResolved == op = "apply" /\ phase = "resolved"
\* The registry indices whose check reported a problem in the current pass
Detected == {i \in Checks : CheckSettled(i) /\ checkRes[i].hasProblem}

\* C1: no check() rejects: a check that has run to its end is fulfilled with
\* a record {hasProblem, details?}; a check that received an exception from
\* a provider call reports hasProblem = true; diagnoseAuthProblems never
\* rejects.
C1_CheckNeverThrows ==
    /\ \A i \in Checks :
          /\ checkRes[i].settled # "rejected"
          /\ checkPc[i].call = "done" =>
                /\ CheckSettled(i)
                /\ checkRes[i].hasProblem \in BOOLEAN
                /\ Len(checkRes[i].details) <= 1
          /\ CheckSawThrow(i) =>
                checkPc[i].call = "done" /\ CheckSettled(i) /\ checkRes[i].hasProblem
    /\ op = "diagnose" => ret.settled # "rejected"
    /\ DiagnoseResolved => ret.settled = "fulfilled"

\* A resolved diagnosis in which every one of the five checks received an
\* exception from the provider
C1_Witness ==
    /\ DiagnoseResolved
    /\ ret.settled = "fulfilled"
    /\ Len(checkRes) = 5
    /\ \A i \in Checks : CheckSawThrow(i) /\ checkRes[i].hasProblem

\* C2: no fix() rejects: a fix that has run to its end is fulfilled with a
\* record {success, message, details?} whose message is not empty; a fix
\* that received an exception from a provider call reports success = false;
\* applyAuthFixes never rejects and reports every selected fix.
C2_FixNeverThrows ==
    /\ \A k \in Fixes :
          /\ fixRes[k].settled # "rejected"
          /\ fixPc[k].call = "done" =>
                /\ FixSettled(k)
                /\ fixRes[k].success \in BOOLEAN
                /\ Len(fixRes[k].message) > 0
                /\ Len(fixRes[k].details) <= 1
          /\ FixSawThrow(k) =>
                fixPc[k].call = "done" /\ FixSettled(k) /\ ~fixRes[k].success
    /\ op = "apply" => ret.settled # "rejected"
    /\ ApplyResolved =>
          /\ ret.settled = "fulfilled"
          /\ Len(ret.applied) = Len(problemsToFix)
          /\ \A k \in Fixes :
                /\ ret.applied[k].problem = problemsToFix[k].problem
                /\ ret.applied[k].success = fixRes[k].success

\* A resolved fix pass in which one fix failed on a provider exception and
\* another selected fix is reported as successful
C2_Witness ==
    /\ ApplyResolved
    /\ ret.settled = "fulfilled"
    /\ \E k1, k2 \in Fixes :
          /\ FixSawThrow(k1)
          /\ ~ret.applied[k1].success
          /\ ret.applied[k2].success

\* C3 as stated: whenever a provider call issued by a check returns an error
\* result, that check reports hasProblem = true.
C3_FailClosedEveryProblem ==
    \A i \in Checks :
        (checkPc[i].call = "done" /\ CheckSawError(i)) => checkRes[i].hasProblem

\* C3 amended: on an error result, session_expired, connectivity and
\* missing_profile report hasProblem = true whatever the message; invalid_token
\* reports a problem exactly when the message contains "JWT" and cors exactly
\* when it contains "CORS".
C3_FailClosedByProblem ==
    \A i \in Checks :
        (checkPc[i].call = "done" /\ CheckSawError(i)) =>
            LET id == authProblems[i].id
                m == LastResp(i).error[1].message
            IN  /\ id \in {"session_expired", "connectivity", "missing_profile"} =>
                      checkRes[i].hasProblem
                /\ id = "invalid_token" =>
                      (checkRes[i].hasProblem <=> includes(m, "JWT"))
                /\ id = "cors" =>
                      (checkRes[i].hasProblem <=> includes(m, "CORS"))

\* A finished pass in which getUser returned an error without "JWT":
\* invalid_token reports no problem, missing_profile reports one
C3_Witness ==
    /\ phase = "resolved"
    /\ \E i, j \in Checks :
          /\ authProblems[i].id = "invalid_token"
          /\ CheckSawError(i)
          /\ ~checkRes[i].hasProblem
          /\ authProblems[j].id = "missing_profile"
          /\ CheckSawError(j)
          /\ checkRes[j].hasProblem

\* C4: in an applyAuthFixes pass fix() is invoked exactly once for every
\* problem whose check reported hasProblem = true in that pass and never for
\* the others; applied has one entry per fixed problem, in registry order.
C4_FixOnlyDetected ==
    op = "apply" =>
        /\ \A i \in Checks :
              LET n == fixInvoked[authProblems[i].id] IN
              /\ n <= 1
              /\ n = 1 => CheckSettled(i) /\ checkRes[i].hasProblem
              /\ (phase \in {"fixing", "resolved"} /\ checkRes[i].hasProblem) => n = 1
        /\ phase = "resolved" =>
              /\ Len(ret.applied) = Cardinality(Detected)
              /\ \A i \in Detected :
                    \E k \in DOMAIN ret.applied : ret.applied[k].problem = authProblems[i]
              /\ \A k1, k2 \in DOMAIN ret.applied :
                    k1 < k2 =>
                        \E i1, i2 \in Checks :
                            /\ i1 < i2
                            /\ ret.applied[k1].problem = authProblems[i1]
                            /\ ret.applied[k2].problem = authProblems[i2]

\* A resolved fix pass that fixed some problems and left others alone
C4_Witness ==
    /\ ApplyResolved
    /\ Cardinality(Detected) >= 2
    /\ Cardinality(Detected) < Len(authProblems)
    /\ Len(ret.applied) = Cardinality(Detected)

\* C5: applyAuthFixes re-diagnoses first: no fix is invoked before every
\* registry check of the same invocation has settled, and the fixes selected
\* are exactly the entries of that invocation's own diagnosis with
\* hasProblem = true, whatever an earlier diagnoseAuthProblems returned.
C5_RediagnoseFirst ==
    /\ (phase = "fixing" \/ Len(fixPc) > 0 \/ \E id \in DOMAIN fixInvoked : fixInvoked[id] > 0) =>
          /\ op = "apply"
          /\ Checks = 1..Len(authProblems)
          /\ \A i \in Checks : checkPc[i].call = "done" /\ CheckSettled(i)
    /\ (op = "apply" /\ phase \in {"fixing", "resolved"}) =>
          /\ \A k \in DOMAIN problemsToFix :
                \E i \in Detected :
                    /\ problemsToFix[k].problem = authProblems[i]
                    /\ problemsToFix[k].details = checkRes[i].details
          /\ \A i \in Detected :
                \E k \in DOMAIN problemsToFix : problemsToFix[k].problem = authProblems[i]

\* Fixes running while the caller still holds an earlier diagnosis that
\* disagrees with this invocation's own
C5_Witness ==
    /\ op = "apply"
    /\ phase = "fixing"
    /\ diagnostics # None
    /\ \E i \in Checks :
          /\ checkRes[i].hasProblem
          /\ ~diagnostics[1].problems[i].hasProblem
          /\ fixInvoked[authProblems[i].id] = 1

\* C6: after applyAuthFixes, summary.total is the length of applied,
\* summary.successful the number of entries with success = true,
\* summary.failed the number with success = false, and successful + failed =
\* total.
C6_ApplySummaryCounts ==
    (ApplyResolved /\ ret.settled = "fulfilled") =>
        LET idx == DOMAIN ret.applied IN
        /\ ret.summary.total = Len(ret.applied)
        /\ ret.summary.successful = Cardinality({k \in idx : ret.applied[k].success})
        /\ ret.summary.failed = Cardinality({k \in idx : ~ret.applied[k].success})
        /\ ret.summary.successful + ret.summary.failed = ret.summary.total
        /\ fixResults = Some(ret)

\* A resolved fix pass with both a successful and a failed fix
C6_Witness ==
    /\ ApplyResolved
    /\ ret.settled = "fulfilled"
    /\ ret.summary.successful >= 1
    /\ ret.summary.failed >= 1

RegistryIds == <<"session_expired", "invalid_token", "connectivity", "missing_profile", "cors">>

\* C7: a diagnoseAuthProblems result has exactly one entry per registry
\* problem, in registry order, whatever order the checks completed in; the
\* registry has five entries with pairwise distinct ids and never changes.
C7_RegistryOrder ==
    /\ Len(authProblems) = 5
    /\ \A i \in 1..5 : authProblems[i].id = RegistryIds[i]
    /\ \A i, j \in 1..5 : i # j => authProblems[i].id # authProblems[j].id
    /\ authProblems = Registry
    /\ (DiagnoseResolved /\ ret.settled = "fulfilled") =>
          /\ Len(ret.problems) = 5
          /\ \A i \in 1..5 :
                /\ ret.problems[i].problem = authProblems[i]
                /\ ret.problems[i].problem.id = RegistryIds[i]
                /\ ret.problems[i].hasProblem = checkRes[i].hasProblem
                /\ ret.problems[i].details = checkRes[i].details

\* A resolved diagnosis whose checks did not complete in registry order
C7_Witness ==
    /\ DiagnoseResolved
    /\ ret.settled = "fulfilled"
    /\ outOfOrder
    /\ \E i \in 1..5 : ~ret.problems[i].hasProblem

\* The entries of a diagnosis with hasProblem = true and severity sev
ProblemsOfSeverity(problems, sev) ==
    {i \in DOMAIN problems : problems[i].hasProblem /\ problems[i].problem.severity = sev}

\* C8: in a diagnoseAuthProblems result, summary.total is the number of
\* entries with hasProblem = true, each severity counter the number of those
\* of that severity, the four counters add up to total, and all five are 0
\* when no check reports a problem.
C8_DiagnoseSummaryCounts ==
    (DiagnoseResolved /\ ret.settled = "fulfilled") =>
        LET ps == ret.problems
            sm == ret.summary
        IN  /\ sm.total = Cardinality({i \in DOMAIN ps : ps[i].hasProblem})
            /\ sm.critical = Cardinality(ProblemsOfSeverity(ps, "critical"))
            /\ sm.high = Cardinality(ProblemsOfSeverity(ps, "high"))
            /\ sm.medium = Cardinality(ProblemsOfSeverity(ps, "medium"))
            /\ sm.low = Cardinality(ProblemsOfSeverity(ps, "low"))
            /\ sm.critical + sm.high + sm.medium + sm.low = sm.total
            /\ (\A i \in DOMAIN ps : ~ps[i].hasProblem) =>
                  sm = [total |-> 0, critical |-> 0, high |-> 0, medium |-> 0, low |-> 0]

\* A resolved diagnosis with problems of two severities and a passing check
C8_Witness ==
    /\ DiagnoseResolved
    /\ ret.settled = "fulfilled"
    /\ ret.summary.high >= 1
    /\ ret.summary.medium >= 1
    /\ ret.summary.total < 5

\* C9: session_expired reports hasProblem = true exactly when its session
\* fetch threw, returned an error or returned no session; when the fetch
\* returned {session: null} without error the details say that no active
\* session was found, and the diagnosis has that entry and summary.total >= 1.
C9_SessionExpiredCheck ==
    \A i \in Checks :
        (authProblems[i].id = "session_expired" /\ checkPc[i].call = "done") =>
            LET r == checkResp[i][1]
                noSession == r.kind = "value" /\ r.error = None /\ r.data[1].session = None
            IN  /\ Len(checkResp[i]) = 1
                /\ checkRes[i].hasProblem <=>
                      (r.kind = "throw" \/ r.error # None \/ noSession)
                /\ noSession =>
                      /\ checkRes[i].details = Some("Nenhuma sessão ativa encontrada")
                      /\ (DiagnoseResolved /\ ret.settled = "fulfilled") =>
                            /\ ret.problems[i].problem.id = "session_expired"
                            /\ ret.problems[i].hasProblem
                            /\ ret.problems[i].details = Some("Nenhuma sessão ativa encontrada")
                            /\ ret.summary.total >= 1

\* A resolved diagnosis whose session fetch returned {session: null} without
\* error
C9_Witness ==
    /\ DiagnoseResolved
    /\ ret.settled = "fulfilled"
    /\ checkResp[1][1] = Value(Some([session |-> None]), None)
    /\ ret.problems[1].hasProblem

LocalhostLike(o) == includes(o, "localhost") \/ includes(o, "127.0.0.1")

\* The cors check ran to its end on a localhost-like origin: no problem, no
\* provider call
CorsOnLocalhost(i) ==
    LocalhostLike(origin) =>
        /\ ~checkRes[i].hasProblem
        /\ checkCalls[i] = 0
        /\ checkResp[i] = <<>>

\* C10 as stated: on a localhost-like origin the cors check reports no
\* problem and issues no provider call; on any other origin it reports a
\* problem only for a CORS-flavoured session-fetch error.
C10_CorsOnlyCorsError ==
    \A i \in Checks :
        (authProblems[i].id = "cors" /\ checkPc[i].call = "done") =>
            /\ CorsOnLocalhost(i)
            /\ (~LocalhostLike(origin) /\ checkRes[i].hasProblem) =>
                  /\ LastResp(i).kind = "value"
                  /\ LastResp(i).error # None
                  /\ includes(LastResp(i).error[1].message, "CORS")

\* C10 amended: on a localhost-like origin the cors check reports no problem
\* and issues no provider call; on any other origin it reports a problem only
\* for a CORS-flavoured session-fetch error or a session fetch that throws.
C10_CorsOnlyCorsErrorOrThrow ==
    \A i \in Checks :
        (authProblems[i].id = "cors" /\ checkPc[i].call = "done") =>
            /\ CorsOnLocalhost(i)
            /\ (~LocalhostLike(origin) /\ checkRes[i].hasProblem) =>
                  \/ LastResp(i).kind = "throw"
                  \/ /\ LastResp(i).kind = "value"
                     /\ LastResp(i).error # None
                     /\ includes(LastResp(i).error[1].message, "CORS")

\* A finished pass on http://127.0.0.1:3000 whose session fetches fail: the
\* cors check made no call and reports no problem
C10_Witness ==
    /\ phase = "resolved"
    /\ origin = "http://127.0.0.1:3000"
    /\ sessMode # "ok"
    /\ \E i \in Checks :
          /\ authProblems[i].id = "cors"
          /\ ~checkRes[i].hasProblem
          /\ checkCalls[i] = 0
    /\ \E j \in Checks : authProblems[j].id = "connectivity" /\ checkRes[j].hasProblem


(***************************************************************************)
(* The helper functions, checked under SpecHelpers.                        *)
(***************************************************************************)

HelperResolved(o) == op = o /\ phase = "resolved"

\* The expires_at of the provider's session, when it carries one
CarriesExpiry == session # None /\ session[1].expires_at \notin {None, Some(0)}
ExpiresAt == session[1].expires_at[1]

ClearThrew ==
    \/ storageMode = "keyThrows"
    \/ storageMode = "removeThrows"
        /\ \E i \in DOMAIN before.sessionStorage :
                MatchesAuthKey(before.sessionStorage[i].key)

NamesAuth(key) == includes(key, "supabase") \/ includes(key, "auth")
Kept(storage) == SelectSeq(storage, LAMBDA e : ~NamesAuth(e.key))

\* C12: a clearAuthData whose storage accesses do not throw leaves, in
\* localStorage and in sessionStorage, no key whose name contains 'supabase'
\* or 'auth', leaves every other entry with its value, and has called signOut
\* once, also when no key matched.
C12_ClearRemovesAuthKeys ==
    (HelperResolved("clear") /\ ~ClearThrew) =>
        /\ \A i \in DOMAIN localStorage : ~NamesAuth(localStorage[i].key)
        /\ \A i \in DOMAIN sessionStorage : ~NamesAuth(sessionStorage[i].key)
        /\ localStorage = Kept(before.localStorage)
        /\ sessionStorage = Kept(before.sessionStorage)
        /\ calls["signOut"] = 1

\* Two adjacent matching keys between two other keys: both are gone
C12_Witness ==
    /\ HelperResolved("clear")
    /\ ~ClearThrew
    /\ \E i \in 1..(Len(before.localStorage) - 1) :
        /\ NamesAuth(before.localStorage[i].key)
        /\ NamesAuth(before.localStorage[i + 1].key)
    /\ localStorage = <<Entry("theme", "dark"), Entry("cart", "3")>>
    /\ calls["signOut"] = 1

\* C13: every clearAuthData invocation calls signOut, whatever happened in
\* the local wipe, also when enumerating or removing a storage key threw.
C13_SignOutAlwaysAttempted ==
    HelperResolved("clear") => calls["signOut"] = 1

\* C14: clearAuthData never rejects; it resolves with success = false exactly
\* when a storage access or the signOut call threw; and when the keys were
\* removed and signOut then throws, the result is a failure and the keys stay
\* removed.
C14_ClearFailsOnThrowOnly ==
    HelperResolved("clear") =>
        /\ ret.settled = "fulfilled"
        /\ ~ret.success <=> (ClearThrew \/ (calls["signOut"] = 1 /\ signOutMode = "throw"))
        /\ (~ClearThrew /\ signOutMode = "throw") =>
            /\ ~ret.success
            /\ localStorage = Kept(before.localStorage)
            /\ sessionStorage = Kept(before.sessionStorage)

\* The keys were removed, then signOut threw: a failure, and storage changed
C14_Witness ==
    /\ HelperResolved("clear")
    /\ ~ClearThrew
    /\ calls["signOut"] = 1
    /\ signOutMode = "throw"
    /\ ret = ClearFailed
    /\ localStorage # before.localStorage
    /\ \A i \in DOMAIN localStorage : ~NamesAuth(localStorage[i].key)

\* The response to refreshSession carries a session
RefreshGaveSession ==
    /\ refreshSession.kind # "throw"
    /\ refreshSession.error = None
    /\ refreshSession.data # None
    /\ refreshSession.data[1].session # None

\* C17: forceSessionRefresh calls refreshSession once and nothing else, runs
\* no check, never rejects, succeeds iff the response carries a session, and
\* its success is the success the session_expired fix reports for the same
\* response.
C17_ForceRefreshAsFix ==
    HelperResolved("forceRefresh") =>
        /\ calls = [NoCalls EXCEPT !["refreshSession"] = 1]
        /\ checkPc = <<>>
        /\ ret.settled = "fulfilled"
        /\ ret.success <=> RefreshGaveSession
        /\ ret.success = sessionExpiredFix(refreshSession).success

\* A refresh answered without error and without a session
C17_Witness ==
    /\ HelperResolved("forceRefresh")
    /\ refreshMode = "nosession"
    /\ ret = Outcome(FALSE, "Sessão não pôde ser renovada")
    /\ calls["refreshSession"] = 1


(***************************************************************************)
(* The order of the checks, checked under SpecOrder.                       *)
(***************************************************************************)

\* What check() of the problem id settles to when it runs alone, from its
\* first line to its return, on the provider as it is
RunCheckAlone(id) ==
    LET b == CheckBegin(id) IN
    IF b.done THEN b.result
    ELSE LET s1 == CheckResume(id, b.call, Respond(b.call, b.arg)) IN
        IF s1.done THEN s1.result
        ELSE CheckResume(id, s1.call, Respond(s1.call, s1.arg)).result

\* The diagnosis the five checks give when run one after the other, in
\* registry order
SequentialProblems ==
    [i \in 1..Len(Registry) |->
        [problem |-> Registry[i],
         hasProblem |-> RunCheckAlone(Registry[i].id).hasProblem,
         details |-> RunCheckAlone(Registry[i].id).details]]

SequentialCount(sev) ==
    Cardinality({i \in 1..Len(Registry) :
        SequentialProblems[i].hasProblem /\ Registry[i].severity = sev})

SequentialDiagnosis ==
    [settled |-> "fulfilled",
     problems |-> SequentialProblems,
     summary |->
        [total |-> Cardinality({i \in 1..Len(Registry) : SequentialProblems[i].hasProblem}),
         critical |-> SequentialCount("critical"),
         high |-> SequentialCount("high"),
         medium |-> SequentialCount("medium"),
         low |-> SequentialCount("low")]]

RunFixAlone(id, s, rows) ==
    LET b == FixBegin(id) IN
    IF b.done THEN [result |-> b.result, session |-> s, user_profiles |-> rows]
    ELSE LET s1 == SessionAfterIn(s, b.call)
             rows1 == ProfilesAfterIn(rows, b.call, b.arg)
             step1 == FixResume(id, b.call, RespondIn(s, rows, b.call, b.arg))
         IN
        IF step1.done
        THEN [result |-> step1.result, session |-> s1, user_profiles |-> rows1]
        ELSE [result |-> FixResume(id, step1.call,
                                   RespondIn(s1, rows1, step1.call, step1.arg)).result,
              session |-> SessionAfterIn(s1, step1.call),
              user_profiles |-> ProfilesAfterIn(rows1, step1.call, step1.arg)]

RECURSIVE SequentialFixes(_, _)
\* The selected fixes run one after the other, in the order selected
SequentialFixes(toFix, st) ==
    IF toFix = <<>> THEN st
    ELSE LET f == RunFixAlone(Head(toFix).problem.id, st.session, st.user_profiles) IN
        SequentialFixes(Tail(toFix),
            [session |-> f.session, user_profiles |-> f.user_profiles,
             success |-> Append(st.success, f.result.success)])

\* C16: whatever order the provider calls of the selected fixes are served
\* in, applyAuthFixes reports the per-problem success results and leaves the
\* session and the profiles that the same fixes give when run one after the
\* other from the state the pass found.
C16_FixesOrderFree ==
    (ApplyResolved /\ ret.settled = "fulfilled") =>
        LET seq == SequentialFixes(problemsToFix,
                        [session |-> before.session,
                         user_profiles |-> before.user_profiles, success |-> <<>>])
        IN
            /\ [k \in 1..Len(ret.applied) |-> ret.applied[k].success] = seq.success
            /\ session = seq.session
            /\ user_profiles = seq.user_profiles

FixOf(id) == {k \in Fixes : problemsToFix[k].problem.id = id /\ fixPc[k].call = "done"}

\* The response carries a session
GaveSession(r) ==
    r.kind # "throw" /\ r.error = None /\ r.data # None /\ r.data[1].session # None

\* C19: the session_expired fix calls refreshSession once; it reports
\* success = true iff the refresh returned a session; when the refresh
\* returned no session, returned an error or threw, it reports success = false
\* with a message that is not empty.
C19_SessionExpiredFix ==
    \A k \in FixOf("session_expired") :
        /\ Len(fixResp[k]) = 1
        /\ calls["refreshSession"] = 1
        /\ fixResp[k][1] = refreshSession
        /\ FixSettled(k)
        /\ fixRes[k].success <=> GaveSession(fixResp[k][1])
        /\ ~GaveSession(fixResp[k][1]) => (~fixRes[k].success /\ Len(fixRes[k].message) > 0)

\* The refresh threw: the fix reports a failure and says so
C19_Witness ==
    \E k \in FixOf("session_expired") :
        /\ refreshMode = "throw"
        /\ fixResp[k] = <<Throws>>
        /\ fixRes[k] = NotFixed("Erro ao renovar sessão", Some("Erro desconhecido"))

\* C20: the invalid_token fix calls signOut once; it reports success = true
\* whenever the call returned, also when it returned an error result, and
\* success = false only when the call threw.
C20_InvalidTokenFix ==
    \A k \in FixOf("invalid_token") :
        /\ Len(fixResp[k]) = 1
        /\ calls["signOut"] = 1
        /\ fixResp[k][1] = signOut
        /\ FixSettled(k)
        /\ fixRes[k].success <=> fixResp[k][1].kind # "throw"

\* The sign-out returned an error, the session is still there, and the fix
\* reports success
C20_Witness ==
    \E k \in FixOf("invalid_token") :
        /\ signOutMode = "error"
        /\ fixResp[k][1].error # None
        /\ fixRes[k].success
        /\ session # None


(***************************************************************************)
(* What the operations touch, checked under SpecReads.                     *)
(***************************************************************************)

WritingCalls == {"refreshSession", "signOut", "insert"}
StorageAsBefore ==
    /\ ~storageTouched
    /\ localStorage = before.localStorage
    /\ sessionStorage = before.sessionStorage

\* C18: diagnoseAuthProblems (also the diagnosis applyAuthFixes begins with)
\* and needsReauthentication call getSession, getUser and the profile lookup
\* only, never refreshSession, signOut or the profile insert, and access no
\* storage: the session, the profiles and both storages are as they were when
\* the operation began. Every operation but clearAuthData leaves both
\* storages as they were.
C18_PureReads ==
    /\ (op \in {"diagnose", "needsReauth"} \/ phase = "checking") =>
        /\ \A c \in WritingCalls : calls[c] = 0
        /\ session = before.session
        /\ user_profiles = before.user_profiles
        /\ StorageAsBefore
    /\ op # "clear" => StorageAsBefore

\* A diagnosis of a signed-in user without a profile, with credentials in
\* both storages: three session fetches, two user fetches, one lookup, and
\* everything still in place
C18_Witness ==
    /\ DiagnoseResolved
    /\ session # None
    /\ calls = [NoCalls EXCEPT !["getSession"] = 3, !["getUser"] = 2, !["select"] = 1]
    /\ \E i \in DOMAIN localStorage : MatchesAuthKey(localStorage[i].key)
    /\ \E i \in DOMAIN sessionStorage : MatchesAuthKey(sessionStorage[i].key)
    /\ ret.problems[4].hasProblem


(***************************************************************************)
(* The single checks and fixes, checked under Spec.                        *)
(***************************************************************************)

CheckOf(id) == {i \in Checks : authProblems[i].id = id /\ checkPc[i].call = "done"}

\* C21: the connectivity check reports hasProblem = true exactly when its
\* session fetch threw, returned an error, or took more than 5000 ms; a fetch
\* that succeeds in 5000 ms reports no problem. The time is measured on a
\* call that has returned: a slow call is waited for, and its result is
\* reported with the time it took.
C21_ConnectivityCheck ==
    /\ \A i \in CheckOf("connectivity") :
        /\ Len(checkResp[i]) = 1
        /\ CheckSettled(i)
        /\ checkRes[i].hasProblem <=>
            \/ checkResp[i][1].kind = "throw"
            \/ checkResp[i][1].error # None
            \/ latency > SlowResponseMs
        /\ (checkResp[i][1].kind # "throw" /\ checkResp[i][1].error = None
                /\ latency > SlowResponseMs) =>
            checkRes[i].details = Some("Resposta lenta: " \o ToString(latency) \o "ms")
    /\ \A i \in Checks :
        (authProblems[i].id = "connectivity" /\ checkResp[i] = <<>>) =>
            checkRes[i] = Pending

\* A session fetch that succeeded in exactly 5000 ms: no problem
C21_Witness ==
    \E i \in CheckOf("connectivity") :
        /\ latency = SlowResponseMs
        /\ sessMode = "ok"
        /\ checkRes[i] = NoProblem


\* The fixes of the problem id in this pass, finished or not
FixFor(id) == {k \in Fixes : problemsToFix[k].problem.id = id}

\* The user in the response to getUser, if there is one
UserIn(r) ==
    IF r.kind = "throw" \/ r.data = None THEN None ELSE r.data[1].user

\* The profile the claim describes for the user u
ProfileFor(u) ==
    [id |-> u.id,
     email |-> IF u.email = None THEN "" ELSE u.email[1],
     name |-> IF u.name = None THEN "Usuário" ELSE u.name[1],
     role |-> "user"]

\* C22 (checked under SpecProfile): the missing_profile fix issues at most
\* one insert, and only after getUser returned a user; the row is the user's
\* id, the user's email or '', the metadata name or 'Usuário', and role
\* 'user'; it reports success = true iff the insert returned without error;
\* with no user it reports success = false and issues no insert.
C22_MissingProfileFix ==
    /\ calls["insert"] <= 1
    /\ calls["insert"] = 1 => FixFor("missing_profile") # {}
    /\ \A k \in FixFor("missing_profile") :
        /\ fixPc[k].call = "insert" =>
            /\ Len(fixResp[k]) = 1
            /\ UserIn(fixResp[k][1]) # None
            /\ fixPc[k].arg = ProfileFor(UserIn(fixResp[k][1])[1])
        /\ (fixPc[k].call = "done" /\ Len(fixResp[k]) = 1) =>
            /\ UserIn(fixResp[k][1]) = None
            /\ calls["insert"] = 0
            /\ FixSettled(k) /\ ~fixRes[k].success
        /\ (fixPc[k].call = "done" /\ Len(fixResp[k]) = 2) =>
            /\ calls["insert"] = 1
            /\ FixSettled(k)
            /\ fixRes[k].success <=>
                (fixResp[k][2].kind # "throw" /\ fixResp[k][2].error = None)
            /\ fixRes[k].success =>
                ProfileFor(UserIn(fixResp[k][1])[1]) \in user_profiles

\* A user with a name in the metadata and no email got a profile
C22_Witness ==
    \E k \in FixFor("missing_profile") :
        /\ fixPc[k].call = "done"
        /\ fixRes[k] = Fixed("Perfil criado com sucesso")
        /\ user_profiles =
            {[id |-> "user-1", email |-> "", name |-> "Ana", role |-> "user"]}


\* C23: the cors fix reports success = false without any provider call; so
\* every applyAuthFixes pass in which cors was detected resolves with
\* summary.failed >= 1 and summary.successful < summary.total.
C23_CorsFixFails ==
    /\ \A k \in FixFor("cors") :
        /\ fixPc[k].call = "done"
        /\ fixResp[k] = <<>>
        /\ FixSettled(k)
        /\ ~fixRes[k].success
    /\ (ApplyResolved /\ FixFor("cors") # {}) =>
        /\ ret.settled = "fulfilled"
        /\ ret.summary.failed >= 1
        /\ ret.summary.successful < ret.summary.total

\* A pass that renewed the session and could do nothing about cors
C23_Witness ==
    /\ ApplyResolved
    /\ FixFor("cors") # {}
    /\ ret.summary.successful >= 1
    /\ ret.summary.failed >= 1
    /\ \E k \in FixFor("cors") : ~ret.applied[k].success


(***************************************************************************)
(* More on the helper functions, checked under SpecHelpers.                *)
(***************************************************************************)

\* C29: for a session that is there, needsReauthentication returns
\* false when the session carries no expiry (expires_at absent or 0), and
\* false when the expiry is exactly 300 seconds after the current second.
C29_ReauthNoExpiryOrAtWindow ==
    (HelperResolved("needsReauth") /\ sessMode = "ok" /\ session # None) =>
        /\ ~CarriesExpiry => ret = Answer(FALSE)
        /\ (CarriesExpiry /\ ExpiresAt - NowOf(clock) = ReauthWindowSec) =>
            ret = Answer(FALSE)

\* A session without expires_at was asked about
C29_Witness ==
    /\ HelperResolved("needsReauth")
    /\ sessMode = "ok"
    /\ session # None
    /\ session[1].expires_at = None
    /\ ret = Answer(FALSE)

\* C30: clearAuthData reports success = true whenever its signOut call
\* returned, also when it returned an error result; the session is then as it
\* was, so the success does not say that the sign-out took effect.
C30_ClearSucceedsOnSignOutError ==
    (HelperResolved("clear") /\ calls["signOut"] = 1 /\ signOutMode # "throw") =>
        /\ ret = ClearSucceeded
        /\ signOut.error # None => session = before.session

\* The sign-out returned an error, the user is still signed in, and
\* clearAuthData reports success
C30_Witness ==
    /\ HelperResolved("clear")
    /\ calls["signOut"] = 1
    /\ signOutMode = "error"
    /\ session # None
    /\ ret.success


(***************************************************************************)
(* A diagnosis after the fixes, checked under Spec. The diagnosis that     *)
(* follows a pass is what the checks give on the provider as the pass left *)
(* it (the checks read only, in any order: C15, C18).                      *)
(***************************************************************************)

\* The checks that passed in this applyAuthFixes pass's diagnosis
PassedInPass == {i \in Checks : CheckSettled(i) /\ ~checkRes[i].hasProblem}
\* The checks that would pass in a diagnosis run now
PassNow == {i \in 1..Len(authProblems) : ~RunCheckAlone(authProblems[i].id).hasProblem}

\* C28, as claimed: every check that passed in the diagnosis of an
\* applyAuthFixes pass still passes in a diagnosis run right after the pass.
C28_FixesKeepPassingChecks ==
    (ApplyResolved /\ ret.settled = "fulfilled") => PassedInPass \subseteq PassNow

\* C28, amended: every check that passed in the diagnosis of an
\* applyAuthFixes pass that did not select invalid_token still passes in a
\* diagnosis run right after the pass. (The invalid_token fix signs the user
\* out, after which the session_expired check fails.)
C28_FixesButSignOutKeepPassingChecks ==
    (ApplyResolved /\ ret.settled = "fulfilled" /\ FixFor("invalid_token") = {}) =>
        PassedInPass \subseteq PassNow

\* A pass that renewed the session, without invalid_token: what passed
\* before still passes
C28_Witness ==
    /\ ApplyResolved
    /\ ret.settled = "fulfilled"
    /\ FixFor("invalid_token") = {}
    /\ session # before.session
    /\ PassedInPass # {}
    /\ PassedInPass \subseteq PassNow


(***************************************************************************)
(* Two invocations side by side, checked under SpecOverlap.                *)
(***************************************************************************)

IdsOf(toFix) == [k \in 1..Len(toFix) |-> toFix[k].problem.id]
\* The ids of the problems the settled checks cr report, in registry order
DetectedIds(cr) ==
    SelectSeq(RegistryIds,
        LAMBDA id : \E i \in DOMAIN cr : authProblems[i].id = id /\ cr[i].hasProblem)

\* C24: an invocation of applyAuthFixes fixes every problem its own diagnosis
\* detected, whatever another invocation has diagnosed, is fixing or has
\* fixed, and every fix it began runs to its end: nothing keeps two
\* invocations from running the fix of the same problem.
C24_NoMutualExclusion ==
    /\ (op = "apply" /\ phase \in {"fixing", "resolved"}) =>
        IdsOf(problemsToFix) = DetectedIds(checkRes)
    /\ (other.op = "apply" /\ other.phase \in {"fixing", "resolved"}) =>
        IdsOf(other.problemsToFix) = DetectedIds(other.checkRes)
    /\ (op = "apply" /\ phase = "resolved") =>
        /\ ret.settled = "fulfilled"
        /\ IdsOf(ret.applied) = IdsOf(problemsToFix)
    /\ (other.op = "apply" /\ other.phase = "resolved") =>
        /\ other.ret.settled = "fulfilled"
        /\ IdsOf(other.ret.applied) = IdsOf(other.problemsToFix)

\* Both invocations found the profile missing before either had fixed it;
\* both issued the insert, and the second insert failed on the first one's row
C24_Witness ==
    /\ op = "apply" /\ phase = "resolved"
    /\ other.op = "apply" /\ other.phase = "resolved"
    /\ calls["insert"] = 1
    /\ other.calls["insert"] = 1
    /\ Cardinality(user_profiles) = 1
    /\ \E k1 \in DOMAIN ret.applied, k2 \in DOMAIN other.ret.applied :
        /\ ret.applied[k1].problem.id = "missing_profile"
        /\ other.ret.applied[k2].problem.id = "missing_profile"
        /\ ret.applied[k1].success # other.ret.applied[k2].success


(***************************************************************************)
(* Termination, checked under SpecLive.                                    *)
(***************************************************************************)

Busy == phase \in {"checking", "fixing"}
\* A check or a fix of the pass awaits a call that never answers
Stuck ==
    \/ phase = "checking" /\ \E i \in DOMAIN checkPc : checkPc[i].call \in hung
    \/ phase = "fixing" /\ \E k \in DOMAIN fixPc : fixPc[k].call \in hung

\* C25: a pass of diagnoseAuthProblems or applyAuthFixes whose provider calls
\* are all answered resolves; a pass that has issued a call that is never
\* answered never resolves, whatever its other checks and fixes have done.
C25_ResolvesIffCallsReturn ==
    /\ [](Busy => <>(phase = "resolved" \/ Stuck))
    /\ [](Stuck => [](Stuck /\ phase # "resolved"))

\* The profile lookup never answers: the four other checks have settled and
\* the diagnosis has not resolved
C25_Witness ==
    /\ phase = "checking"
    /\ hung = {"select"}
    /\ \E i \in DOMAIN checkPc :
        /\ checkPc[i].call = "select"
        /\ \A j \in DOMAIN checkPc \ {i} : checkPc[j].call = "done" /\ CheckSettled(j)
    /\ ret = Pending

\* ------------------------------------------------------------------------
\* The video upload service (src/src/services/videoUploadService.ts)
\* ------------------------------------------------------------------------

\* The identifiers uploadVideo can generate and deleteVideo can be given
VideoIds == {"video-1", "video-2"}

\* The names of the objects the bucket can hold, in the order a listing
\* returns them
ObjectNames ==
    << "thumbnails/video-1/thumb-1.jpg",
       "thumbnails/video-2/thumb-1.jpg",
       "videos/video-1/metadata.json",
       "videos/video-1/original.mp4",
       "videos/video-2/metadata.json",
       "videos/video-2/original.mp4" >>

\* String.prototype.startsWith, the prefix filter of a listing
StartsWith(name, prefix) ==
    /\ Len(name) >= Len(prefix)
    /\ SubSeq(name, 1, Len(prefix)) = prefix

\* How the object storage answers: every operation succeeds, or the named
\* operation fails
GcsModes == {"ok", "uploadFails", "saveFails", "listFails", "deleteFails"}

\* What a synchronous call or an awaited storage operation gives
Thrown(message) == [threw |-> TRUE, message |-> message]
Returned(value) == [threw |-> FALSE, value |-> value]

\* A File of the storage library and the array a listing hands them in
FileObject(name) == [isFile |-> TRUE, name |-> name]
FileArray(files) == [isFile |-> FALSE, items |-> files]

\* bucket.getFiles({ prefix }): the response is an array whose first element
\* is the array of the matching files
getFiles(objects, prefix, mode) ==
    IF mode = "listFails"
    THEN Thrown("list failed")
    ELSE Returned(<< FileArray([i \in 1 .. Len(SelectSeq(ObjectNames,
                        LAMBDA n : n \in objects /\ StartsWith(n, prefix)))
                      |-> FileObject(SelectSeq(ObjectNames,
                        LAMBDA n : n \in objects /\ StartsWith(n, prefix))[i])]) >>)

\* The files uploadVideo accepts
allowedTypes == << "video/mp4", "video/webm", "video/avi", "video/mov", "video/quicktime" >>
maxSize == 100 * 1024 * 1024

\* allowedTypes.join(', ')
JoinTypes ==
    allowedTypes[1] \o ", " \o allowedTypes[2] \o ", " \o allowedTypes[3] \o ", "
        \o allowedTypes[4] \o ", " \o allowedTypes[5]

\* (size / 1024 / 1024).toFixed(2)
Megabytes(size) ==
    LET mb == 1024 * 1024
        hundredths == ((size % mb) * 100 + mb \div 2) \div mb
        whole == size \div mb + (IF hundredths = 100 THEN 1 ELSE 0)
        cents == hundredths % 100
    IN  ToString(whole) \o "." \o (IF cents < 10 THEN "0" ELSE "") \o ToString(cents)

UnsupportedType(file) ==
    "Tipo de arquivo não suportado: " \o file.type \o ". Tipos permitidos: " \o JoinTypes
TooLarge(file) ==
    "Arquivo muito grande: " \o Megabytes(file.size) \o "MB. Tamanho máximo: 100MB"

\* validateVideoFile with the size limit applied from the limit itself
validateVideoFileFromLimit(file) ==
    IF \A i \in DOMAIN allowedTypes : allowedTypes[i] # file.type
    THEN Thrown(UnsupportedType(file))
    ELSE IF file.size >= maxSize
         THEN Thrown(TooLarge(file))
         ELSE Returned(TRUE)

\* validateVideoFile: throws for a type outside the list, then for a size
\* above the limit
validateVideoFile(file) ==
    IF \A i \in DOMAIN allowedTypes : allowedTypes[i] # file.type
    THEN Thrown(UnsupportedType(file))
    ELSE IF file.size > maxSize
         THEN Thrown(TooLarge(file))
         ELSE Returned(TRUE)

\* What a call of the service leaves: the bucket, the settled promise and
\* the number of storage operations it issued
VideoOutcome(objects, promise, ops) == [bucket |-> objects, ret |-> promise, ops |-> ops]

VideoRejected(message) == [settled |-> "rejected", message |-> message]
VideoFulfilled(value) == [settled |-> "fulfilled", value |-> value]

\* uploadVideo: validate, upload the original, save the metadata, process
\* (saves again), name the thumbnail, save once more; any throw is rethrown
\* with the prefix
uploadVideo(file, videoId, objects, mode) ==
    LET v == validateVideoFile(file)
        original == "videos/" \o videoId \o "/original.mp4"
        metadata == "videos/" \o videoId \o "/metadata.json"
        failed(message) == VideoRejected("Falha no upload do vídeo: " \o message)
    IN  IF v.threw
        THEN VideoOutcome(objects, failed(v.message), 0)
        ELSE IF mode = "uploadFails"
        THEN VideoOutcome(objects, failed("upload failed"), 1)
        ELSE IF mode = "saveFails"
        THEN VideoOutcome(objects \cup {original}, failed("save failed"), 2)
        ELSE VideoOutcome(objects \cup {original, metadata},
                          VideoFulfilled([id |-> videoId, size |-> file.size,
                                          qualities |-> << "original", "1080p", "720p", "480p" >>,
                                          thumbnailUrl |-> "thumbnails/" \o videoId \o "/thumb-1.jpg"]),
                          4)

\* The elements allFiles.map reaches before file.delete is not a function:
\* those ahead of the first element that is not a File
Deletable(allFiles) ==
    LET stops == {i \in DOMAIN allFiles : ~allFiles[i].isFile}
        first == IF stops = {} THEN Len(allFiles) + 1
                 ELSE CHOOSE i \in stops : \A j \in stops : i <= j
    IN  SubSeq(allFiles, 1, first - 1)

\* deleteVideo: list videos/<id>/ (the files taken out of the response),
\* list thumbnails/<id>/ (the response kept whole), spread both into
\* allFiles, call delete on each element and await them all; any throw is
\* replaced by the fixed message
deleteVideo(videoId, objects, mode) ==
    LET listed == getFiles(objects, "videos/" \o videoId \o "/", mode)
        files == listed.value[1].items
        thumbnailFiles == getFiles(objects, "thumbnails/" \o videoId \o "/", mode).value
        allFiles == files \o thumbnailFiles
        issued == Deletable(allFiles)
        deleted == IF mode = "deleteFails" THEN {}
                   ELSE {issued[i].name : i \in DOMAIN issued}
        failed == VideoRejected("Falha ao deletar vídeo")
    IN  IF listed.threw
        THEN VideoOutcome(objects, failed, 1)
        ELSE IF Len(issued) < Len(allFiles)
        THEN VideoOutcome(objects \ deleted, failed, 2 + Len(issued))
        ELSE IF mode = "deleteFails" /\ issued # << >>
        THEN VideoOutcome(objects, failed, 2 + Len(issued))
        ELSE VideoOutcome(objects \ deleted, VideoFulfilled(TRUE), 2 + Len(issued))

\* The files a caller can hand to uploadVideo
FileTypes == {"video/mp4", "video/quicktime", "video/x-matroska", "image/png", ""}
FileSizes == {0, maxSize - 1, maxSize, maxSize + 1, 2 * maxSize}
Files == [type : FileTypes, size : FileSizes]

\* Everything but the video service stays as it is
VideoAlone ==
    UNCHANGED <<provider, authProblems, engine, caller, browser, history, completion,
                other, hung>>

\* A call of uploadVideo, from its first statement to its settled promise
UploadVideo(file, videoId) ==
    LET out == uploadVideo(file, videoId, bucket, gcsMode)
    IN  /\ bucket' = out.bucket
        /\ video' = [op |-> "upload", file |-> file, id |-> videoId, ret |-> out.ret,
                     ops |-> out.ops, before |-> bucket]
        /\ UNCHANGED gcsMode
        /\ VideoAlone

\* A call of deleteVideo, from the first listing to its settled promise
DeleteVideo(videoId) ==
    LET out == deleteVideo(videoId, bucket, gcsMode)
    IN  /\ bucket' = out.bucket
        /\ video' = [op |-> "delete", id |-> videoId, ret |-> out.ret,
                     ops |-> out.ops, before |-> bucket]
        /\ UNCHANGED gcsMode
        /\ VideoAlone

\* The bucket before a call: any objects, among them thumbnails written by
\* the processing outside this service
InitVideo ==
    /\ origin = "http://localhost:5173"
    /\ session = None
    /\ user_profiles = {}
    /\ latency = 0
    /\ sessMode = "ok"
    /\ userMode = "ok"
    /\ refreshMode = "session"
    /\ signOutMode = "ok"
    /\ dbMode = "ok"
    /\ clock = NowSec * 1000
    /\ localStorage = << >>
    /\ sessionStorage = << >>
    /\ storageMode = "ok"
    /\ hung = {}
    /\ AuthIdle
    /\ bucket \in SUBSET {ObjectNames[i] : i \in DOMAIN ObjectNames}
    /\ gcsMode \in GcsModes
    /\ video = VideoIdle

NextVideo ==
    \/ \E file \in Files, videoId \in VideoIds : UploadVideo(file, videoId)
    \/ \E videoId \in VideoIds : DeleteVideo(videoId)

SpecVideo == InitVideo /\ [][NextVideo]_vars

\* Objects of the bucket under a prefix
Under(objects, prefix) == {n \in objects : StartsWith(n, prefix)}

\* The file of an upload is one the service documents as acceptable
AllowedType(file) ==
    file.type \in {"video/mp4", "video/webm", "video/avi", "video/mov", "video/quicktime"}
WithinLimit(file) == file.size <= 100 * 1024 * 1024

\* C26: uploadVideo validates the file before any storage operation: a file
\* whose type is not an allowed video type, or whose size exceeds 100 MB,
\* makes uploadVideo fail with an error, with no storage operation issued
\* and no object written to the bucket; a file of an allowed type and of
\* exactly 100 MB passes the validation (it is uploaded when the storage
\* works).
C26_ValidatesBeforeStorage ==
    video.op = "upload" =>
        /\ ~(AllowedType(video.file) /\ WithinLimit(video.file)) =>
              /\ video.ret.settled = "rejected"
              /\ video.ops = 0
              /\ bucket = video.before
        /\ (AllowedType(video.file) /\ WithinLimit(video.file)) =>
              /\ video.ops > 0
              /\ gcsMode = "ok" =>
                    /\ video.ret.settled = "fulfilled"
                    /\ Under(bucket, "videos/" \o video.id \o "/")
                         = {"videos/" \o video.id \o "/original.mp4",
                            "videos/" \o video.id \o "/metadata.json"}

\* An upload of a file just over the limit was refused on a bucket holding
\* other objects
C26_Witness ==
    /\ video.op = "upload"
    /\ video.file.type = "video/mp4"
    /\ video.file.size = maxSize + 1
    /\ video.ret = VideoRejected("Falha no upload do vídeo: Arquivo muito grande: "
                                 \o "100.00MB. Tamanho máximo: 100MB")
    /\ bucket = video.before
    /\ bucket # {}

\* C27: deleteVideo(videoId) deletes every object under videos/<videoId>/
\* and under thumbnails/<videoId>/ and resolves without error when the
\* listing and all deletions succeed; it fails with 'Falha ao deletar vídeo'
\* only when a storage operation fails.
C27_DeletesVideoAndThumbnails ==
    video.op = "delete" =>
        /\ gcsMode \notin {"listFails", "deleteFails"} =>
              /\ video.ret.settled = "fulfilled"
              /\ Under(bucket, "videos/" \o video.id \o "/") = {}
              /\ Under(bucket, "thumbnails/" \o video.id \o "/") = {}
        /\ video.ret.settled = "rejected" =>
              /\ video.ret.message = "Falha ao deletar vídeo"
              /\ gcsMode \in {"listFails", "deleteFails"}
====
